---- MODULE Spec2Model ----
(***************************************************************************)
(* wlog: date and period resolution and value parsers of the command line  *)
(* (cli/common.rs), the work schedules (schedule.rs), the prompts          *)
(* (utils.rs) and the projects, tasks and log entries (projects.rs,        *)
(* tasks.rs, log_entries.rs).                                              *)
(* One run of the program reads the clock and the configuration, parses    *)
(* its arguments and resolves them once with DateArgGroup::to_date or      *)
(* PeriodArgGroup::to_period; the schedule commands read and write the     *)
(* tables schedule_settings and schedule_logs of the database, which       *)
(* outlive the run, as do the tables projects, default_project, tasks and  *)
(* log_entries.                                                            *)
(***************************************************************************)
EXTENDS Integers, Sequences, FiniteSets, TLC

VARIABLES now, config, pc, cmd, args, result, schedule_settings, schedule_logs,
          projects, default_project, tasks, log_entries

vars == <<now, config, pc, cmd, args, result, schedule_settings, schedule_logs,
          projects, default_project, tasks, log_entries>>

(***************************************************************************)
(* Option<T> and Result<T>                                                 *)
(***************************************************************************)
None == [some |-> FALSE]
Some(v) == [some |-> TRUE, val |-> v]

Ok(v) == [ok |-> TRUE, val |-> v]
Err(e) == [ok |-> FALSE, err |-> e]

(***************************************************************************)
(* Bounds of the model                                                     *)
(***************************************************************************)
\* number of consecutive calendar days the clock is drawn from
NumDays == 460
\* largest plain day argument tried (besides the far out-of-range ones)
MaxDay == 32
\* number of explicit years tried with --year
NumYears == 2
\* longest weekday list tried in every order and with repetitions
MaxListLen == 3
\* number of consecutive months (from January 2024) a schedule is expanded for
NumMonths == 24
\* number of explicit --date / --from / --to values tried
NumExplicit == 5
\* longest duration text tried with every sequence of characters
MaxTextLen == 4
\* longest terminal input typed at an input prompt
MaxInputLen == 6
\* largest number of projects created
MaxProjects == 3
\* largest number of tasks created
MaxTasks == 3
\* most minutes logged for one task on one date
MaxMinutes == 60

(***************************************************************************)
(* Calendar of the `time` crate, as used by common.rs                      *)
(***************************************************************************)
Date(y, m, d) == [year |-> y, month |-> m, day |-> d]

is_leap_year(y) == (y % 4 = 0) /\ ((y % 100 # 0) \/ (y % 400 = 0))

days_in_month(y, m) ==
    IF m \in {1, 3, 5, 7, 8, 10, 12} THEN 31
    ELSE IF m \in {4, 6, 9, 11} THEN 30
    ELSE IF is_leap_year(y) THEN 29 ELSE 28

CumulativeDays == <<0, 31, 59, 90, 120, 151, 181, 212, 243, 273, 304, 334>>

DaysBeforeMonth(y, m) ==
    CumulativeDays[m] + (IF m > 2 /\ is_leap_year(y) THEN 1 ELSE 0)

DaysBeforeYear(y) ==
    365 * (y - 1) + ((y - 1) \div 4) - ((y - 1) \div 100) + ((y - 1) \div 400)

\* 1721425 is the Julian day number of 0000-12-31 (proleptic Gregorian)
to_julian_day(date) ==
    1721425 + DaysBeforeYear(date.year) + DaysBeforeMonth(date.year, date.month) + date.day

from_julian_day(jd) ==
    LET n == jd - 1721425
        est == ((n * 400) \div 146097) + 1
        y == CHOOSE c \in {est - 1, est, est + 1} :
                 DaysBeforeYear(c) < n /\ n <= DaysBeforeYear(c + 1)
        o == n - DaysBeforeYear(y)
        m == CHOOSE c \in 1..12 :
                 DaysBeforeMonth(y, c) < o /\ o <= DaysBeforeMonth(y, c) + days_in_month(y, c)
    IN Date(y, m, o - DaysBeforeMonth(y, m))

\* Date - Duration::days(n)
sub_days(date, n) == from_julian_day(to_julian_day(date) - n)

\* Date::previous_day().unwrap()
previous_day(date) == sub_days(date, 1)

\* Date::weekday as days from Monday (Monday = 0 .. Sunday = 6)
weekday(date) == to_julian_day(date) % 7

\* Date::from_calendar_date
from_calendar_date(y, m, d) ==
    IF d >= 1 /\ d <= days_in_month(y, m) THEN Ok(Date(y, m, d))
    ELSE Err("ComponentRange")

\* faulty variant of replace_day: an out-of-range day is clamped to the month's last day
replace_day_clamped(date, d) ==
    LET last == days_in_month(date.year, date.month) IN
    IF d = 0 THEN Err("ComponentRange")
    ELSE Ok(Date(date.year, date.month, IF d > last THEN last ELSE d))

\* Date::replace_day
replace_day(date, d) ==
    IF d = 0 \/ (d >= 29 /\ d > days_in_month(date.year, date.month))
    THEN Err("ComponentRange")
    ELSE Ok(Date(date.year, date.month, d))

\* faulty variant of prev_occurrence: a date that already has the weekday is returned itself
prev_occurrence_inclusive(date, wd) ==
    sub_days(date, (weekday(date) - wd + 7) % 7)

\* Date::prev_occurrence: the first occurrence of the weekday strictly before date
prev_occurrence(date, wd) ==
    LET diff == (weekday(date) - wd + 7) % 7
    IN sub_days(date, IF diff = 0 THEN 7 ELSE diff)

\* Time::from_hms as seconds of the day (Time is ordered by h, m, s)
Hms(h, m, s) == h * 3600 + m * 60 + s

(***************************************************************************)
(* Config::day_change_threshold                                            *)
(***************************************************************************)
\* faulty variant of day_change_threshold: the default is midnight
day_change_threshold_midnight(cfg) ==
    IF cfg.day_change_threshold.some THEN cfg.day_change_threshold.val
    ELSE Hms(0, 0, 0)

day_change_threshold(cfg) ==
    IF cfg.day_change_threshold.some THEN cfg.day_change_threshold.val
    ELSE Hms(12, 0, 0)

(***************************************************************************)
(* DateArgGroup::to_date                                                   *)
(***************************************************************************)
DefaultDateArgs ==
    [today |-> FALSE, yesterday |-> FALSE, weekday |-> None, date |-> None,
     day |-> None, month |-> None, year |-> None]

\* faulty variant of to_date_day: the day-only comparison is >= instead of >
to_date_day_ge(self, today) ==
    LET day == self.day.val IN
    IF ~self.month.some /\ ~self.year.some THEN
        IF day >= today.day
        THEN replace_day(sub_days(today, day), day)
        ELSE replace_day(today, day)
    ELSE IF ~self.month.some THEN Err("unreachable")
    ELSE IF ~self.year.some THEN
        from_calendar_date(
            today.year - (IF (self.month.val = today.month /\ day > today.day)
                             \/ self.month.val > today.month THEN 1 ELSE 0),
            self.month.val, day)
    ELSE from_calendar_date(self.year.val, self.month.val, day)

\* faulty variant of to_date_day: the year is decided by the month alone
to_date_day_month_only(self, today) ==
    LET day == self.day.val IN
    IF ~self.month.some /\ ~self.year.some THEN
        IF day > today.day
        THEN replace_day(sub_days(today, day), day)
        ELSE replace_day(today, day)
    ELSE IF ~self.month.some THEN Err("unreachable")
    ELSE IF ~self.year.some THEN
        from_calendar_date(
            today.year - (IF self.month.val > today.month THEN 1 ELSE 0),
            self.month.val, day)
    ELSE from_calendar_date(self.year.val, self.month.val, day)

\* faulty variant of to_date_day: a day and month without year are taken in the current year
to_date_day_this_year(self, today) ==
    LET day == self.day.val IN
    IF ~self.month.some /\ ~self.year.some THEN
        IF day > today.day
        THEN replace_day(sub_days(today, day), day)
        ELSE replace_day(today, day)
    ELSE IF ~self.month.some THEN Err("unreachable")
    ELSE IF ~self.year.some THEN from_calendar_date(today.year, self.month.val, day)
    ELSE from_calendar_date(self.year.val, self.month.val, day)

to_date_day(self, today) ==
    LET day == self.day.val IN
    IF ~self.month.some /\ ~self.year.some THEN
        IF day > today.day
        THEN LET last_month == sub_days(today, day) IN replace_day(last_month, day)
        ELSE replace_day(today, day)
    ELSE IF ~self.month.some THEN Err("unreachable")
    ELSE IF ~self.year.some THEN
        LET month == self.month.val
            year == today.year -
                    (IF (month = today.month /\ day > today.day) \/ month > today.month
                     THEN 1 ELSE 0)
        IN from_calendar_date(year, month, day)
    ELSE from_calendar_date(self.year.val, self.month.val, day)

\* faulty variant of to_date: every branch starts from the threshold-adjusted day
to_date_logical(self, cfg, n) ==
    LET today == IF n.time < day_change_threshold(cfg)
                 THEN previous_day(n.date) ELSE n.date IN
    IF self.today THEN Ok(today)
    ELSE IF self.yesterday THEN Ok(previous_day(today))
    ELSE IF self.weekday.some THEN Ok(prev_occurrence(today, self.weekday.val))
    ELSE IF self.date.some THEN Ok(self.date.val)
    ELSE IF self.day.some THEN to_date_day(self, today)
    ELSE Ok(today)

\* faulty variant of to_date: the threshold rule is applied to an explicit date as well
to_date_shifted(self, cfg, n) ==
    LET today == n.date IN
    IF self.today THEN Ok(today)
    ELSE IF self.yesterday THEN Ok(previous_day(today))
    ELSE IF self.weekday.some THEN Ok(prev_occurrence(today, self.weekday.val))
    ELSE IF self.date.some THEN
        (IF n.time < day_change_threshold(cfg)
         THEN Ok(previous_day(self.date.val)) ELSE Ok(self.date.val))
    ELSE IF self.day.some THEN to_date_day(self, today)
    ELSE IF n.time < day_change_threshold(cfg) THEN Ok(previous_day(today))
    ELSE Ok(today)

to_date(self, cfg, n) ==
    LET today == n.date IN
    IF self.today THEN Ok(today)
    ELSE IF self.yesterday THEN Ok(previous_day(today))
    ELSE IF self.weekday.some THEN Ok(prev_occurrence(today, self.weekday.val))
    ELSE IF self.date.some THEN Ok(self.date.val)
    ELSE IF self.day.some THEN to_date_day(self, today)
    ELSE IF n.time < day_change_threshold(cfg) THEN Ok(previous_day(today))
    ELSE Ok(today)

(***************************************************************************)
(* PeriodArgGroup::to_period                                               *)
(***************************************************************************)
Period(f, t) == [from |-> f, to |-> t]

\* faulty variant of logical_today: the calendar date, whatever the time of day
logical_today_calendar(cfg, n) == n.date

logical_today(cfg, n) ==
    IF n.time < day_change_threshold(cfg) THEN previous_day(n.date) ELSE n.date

\* faulty variant of default_from: the first day of the month of today
default_from_current_month(today) ==
    LET r == replace_day(today, 1) IN r.val

default_from(today) ==
    LET r == replace_day(sub_days(today, today.day), 1) IN r.val

\* faulty variant of default_to: the period ends today
default_to_today(today) == today

default_to(today) == sub_days(today, today.day)

\* faulty variant of to_period: the week shortcut has its ends exchanged
to_period_week_swapped(self, cfg, n) ==
    LET today == logical_today(cfg, n) IN
    IF self.all THEN None
    ELSE IF self.today THEN Some(Period(today, today))
    ELSE IF self.week THEN Some(Period(today, sub_days(today, 7)))
    ELSE LET from == IF self.from.some THEN self.from.val ELSE default_from(today)
             to == IF self.to.some THEN self.to.val ELSE default_to(today)
         IN Some(Period(from, to))

\* faulty variant of to_period: the today shortcut is looked at before all
to_period_today_first(self, cfg, n) ==
    LET today == logical_today(cfg, n) IN
    IF self.today THEN Some(Period(today, today))
    ELSE IF self.all THEN None
    ELSE IF self.week THEN Some(Period(sub_days(today, 7), today))
    ELSE LET from == IF self.from.some THEN self.from.val ELSE default_from(today)
             to == IF self.to.some THEN self.to.val ELSE default_to(today)
         IN Some(Period(from, to))

to_period(self, cfg, n) ==
    LET today == logical_today(cfg, n) IN
    IF self.all THEN None
    ELSE IF self.today THEN Some(Period(today, today))
    ELSE IF self.week THEN Some(Period(sub_days(today, 7), today))
    ELSE LET from == IF self.from.some THEN self.from.val ELSE default_from(today)
             to == IF self.to.some THEN self.to.val ELSE default_to(today)
         IN Some(Period(from, to))

\* get_by_day_expanded: the dates a period selects (both ends inclusive)
in_period(period, date) ==
    /\ to_julian_day(date) >= to_julian_day(period.from)
    /\ to_julian_day(date) <= to_julian_day(period.to)

(***************************************************************************)
(* Bit arithmetic on u8 / u32 / i32 values                                 *)
(***************************************************************************)
\* bit i of the non-negative integer v
Bit(v, i) == (v \div (2 ^ i)) % 2

\* the positions of the bits set among the low `width` bits of v
ToBits(v, width) == {i \in 0..(width - 1) : Bit(v, i) = 1}

RECURSIVE FromBits(_)
\* the integer whose set bits are at the positions in bits
FromBits(bits) ==
    IF bits = {} THEN 0
    ELSE LET i == CHOOSE x \in bits : TRUE IN (2 ^ i) + FromBits(bits \ {i})

\* a | b on u8
BitOr8(a, b) == FromBits(ToBits(a, 8) \cup ToBits(b, 8))

\* a & b on u8
BitAnd8(a, b) == FromBits(ToBits(a, 8) \cap ToBits(b, 8))

(***************************************************************************)
(* WeekBasedSchedule(u8)                                                   *)
(***************************************************************************)
RECURSIVE FoldOr(_, _)
\* .map(|weekday| 1 << weekday.number_days_from_monday()).fold(0, |acc, w| acc | w)
FoldOr(acc, weekdays) ==
    IF weekdays = <<>> THEN acc
    ELSE FoldOr(BitOr8(acc, 2 ^ Head(weekdays)), Tail(weekdays))

RECURSIVE FoldSum(_, _)
FoldSum(acc, weekdays) ==
    IF weekdays = <<>> THEN acc
    ELSE FoldSum((acc + 2 ^ Head(weekdays)) % 256, Tail(weekdays))

\* faulty variant of WeekBasedSchedule_new: the weekday bits are added, not or-ed
WeekBasedSchedule_new_sum(weekdays, flexible) ==
    BitOr8(FoldSum(0, weekdays), (IF flexible THEN 1 ELSE 0) * (2 ^ 7))

\* WeekBasedSchedule::new
WeekBasedSchedule_new(weekdays, flexible) ==
    BitOr8(FoldOr(0, weekdays), (IF flexible THEN 1 ELSE 0) * (2 ^ 7))

\* WeekBasedSchedule::is_flexible: self.0 & 0x80 > 0
is_flexible(schedule) == BitAnd8(schedule, 128) > 0

\* faulty variant of to_weekdays: the scan stops before Sunday
to_weekdays_no_sunday(schedule) ==
    SelectSeq(<<0, 1, 2, 3, 4, 5>>, LAMBDA w : BitAnd8(schedule, 2 ^ w) > 0)

\* WeekBasedSchedule::to_weekdays (weekdays as days from Monday)
to_weekdays(schedule) ==
    SelectSeq(<<0, 1, 2, 3, 4, 5, 6>>, LAMBDA w : BitAnd8(schedule, 2 ^ w) > 0)

\* WeekBasedSchedule::from_bitmap: the low byte of the stored i32
WeekBasedSchedule_from_bitmap(v) == v % 256

(***************************************************************************)
(* ScheduleLog(u32), kept as the set of the positions of its set bits;     *)
(* the stored bitmap is an i32                                             *)
(***************************************************************************)
\* faulty variant of ScheduleLog_from_bitmap: the sign bit is dropped
ScheduleLog_from_bitmap_unsigned(v) ==
    IF v < 0 THEN ToBits((v + 2147483647) + 1, 31) ELSE ToBits(v, 31)

\* ScheduleLog::from_bitmap: u32::from_ne_bytes(v.to_ne_bytes())
ScheduleLog_from_bitmap(v) ==
    IF v < 0 THEN ToBits((v + 2147483647) + 1, 31) \cup {31} ELSE ToBits(v, 31)

\* ScheduleLog::to_bitmap: i32::from_ne_bytes(self.0.to_ne_bytes())
to_bitmap(log) ==
    IF 31 \in log THEN (FromBits(log \ {31}) - 2147483647) - 1 ELSE FromBits(log)

\* faulty variant of from_weekly: the weekday of the first of the month is left out
from_weekly_no_offset(schedule, date) ==
    {i \in 0..(days_in_month(date.year, date.month) - 1) :
        BitAnd8(2 ^ (i % 7), schedule) > 0}
    \cup (IF is_flexible(schedule) THEN {31} ELSE {})

\* faulty variant of from_weekly: 31 days are expanded in every month
from_weekly_31_days(schedule, date) ==
    LET first_weekday == weekday(replace_day(date, 1).val) IN
    {i \in 0..30 : BitAnd8(2 ^ ((i + first_weekday) % 7), schedule) > 0}
    \cup (IF is_flexible(schedule) THEN {31} ELSE {})

\* ScheduleLog::from_weekly
from_weekly(schedule, date) ==
    LET first_weekday == weekday(replace_day(date, 1).val) IN
    {i \in 0..(days_in_month(date.year, date.month) - 1) :
        LET wd == (i + first_weekday) % 7
            is_workday_ == BitAnd8(2 ^ wd, schedule) > 0
        IN is_workday_}
    \cup (IF is_flexible(schedule) THEN {31} ELSE {})

\* ScheduleLog::is_workday: self.0 & (1 << (ord - 1)) != 0, for ord in 1..32
is_workday(log, ord) == (ord - 1) \in log

(***************************************************************************)
(* The tables schedule_settings (key project_id) and schedule_logs (key    *)
(* project_id, month) and the functions of schedule.rs on them; db is the  *)
(* record of the tables behind the connection                              *)
(***************************************************************************)
\* ScheduleLogEntry::month: month number since 1BCE
month_number(date) == date.year * 12 + date.month

\* schedule_settings::table.find(project_id) ... .optional()
find_schedule(db, project_id) ==
    IF \E r \in db.schedule_settings : r.project_id = project_id
    THEN Some(CHOOSE r \in db.schedule_settings : r.project_id = project_id)
    ELSE None

\* schedule_logs::table.find((project_id, month)) ... .optional()
find_log(db, project_id, month) ==
    IF \E r \in db.schedule_logs : r.project_id = project_id /\ r.month = month
    THEN Some(CHOOSE r \in db.schedule_logs : r.project_id = project_id /\ r.month = month)
    ELSE None

\* faulty variant of upsert_schedule: a row already stored for the project is kept
upsert_schedule_keep(db, row) ==
    [db EXCEPT !.schedule_settings =
        IF \E r \in @ : r.project_id = row.project_id THEN @ ELSE @ \cup {row}]

\* insert_into(schedule_settings).on_conflict(project_id).do_update().set(row)
upsert_schedule(db, row) ==
    [db EXCEPT !.schedule_settings =
        {r \in @ : r.project_id # row.project_id} \cup {row}]

\* insert_into(schedule_logs).on_conflict((project_id, month)).do_update()
\*     .set(bitmap.eq(excluded(bitmap)))
upsert_log(db, row) ==
    [db EXCEPT !.schedule_logs =
        {r \in @ : ~(r.project_id = row.project_id /\ r.month = row.month)} \cup {row}]

\* faulty variant of schedule_set: the stored months of the project are expanded again
schedule_set_relog(db, project_id, schedule) ==
    LET stored == upsert_schedule(db, [project_id |-> project_id,
                                       weekdays |-> Some(schedule),
                                       workday_minutes |-> Some(8 * 60)])
    IN [stored EXCEPT !.schedule_logs =
           {IF r.project_id = project_id
            THEN [r EXCEPT !.bitmap =
                     to_bitmap(from_weekly(schedule,
                         Date((r.month - 1) \div 12, ((r.month - 1) % 12) + 1, 1)))]
            ELSE r : r \in @}]

\* schedule::set
schedule_set(db, project_id, schedule) ==
    upsert_schedule(db, [project_id |-> project_id,
                         weekdays |-> Some(schedule),
                         workday_minutes |-> Some(8 * 60)])

\* schedule::log
schedule_log(db, project_id, date) ==
    LET schedule == find_schedule(db, project_id)
        bitmap == IF schedule.some
                  THEN to_bitmap(from_weekly(
                           WeekBasedSchedule_from_bitmap(schedule.val.weekdays.val), date))
                  ELSE 0
    IN upsert_log(db, [project_id |-> project_id,
                       month |-> month_number(date),
                       bitmap |-> bitmap])

\* schedule::get
schedule_get(db, project_id) ==
    LET row == find_schedule(db, project_id) IN
    IF row.some THEN Some(WeekBasedSchedule_from_bitmap(row.val.weekdays.val)) ELSE None

\* schedule::get_log
schedule_get_log(db, project_id, date) ==
    LET row == find_log(db, project_id, month_number(date)) IN
    IF row.some THEN Some(ScheduleLog_from_bitmap(row.val.bitmap)) ELSE None

(***************************************************************************)
(* Value parsers of the command line; a text is the sequence of its        *)
(* characters                                                              *)
(***************************************************************************)
Digits == <<"0", "1", "2", "3", "4", "5", "6", "7", "8", "9">>

\* '0'..='9'
is_digit(c) == \E i \in 1..10 : Digits[i] = c

\* (c as u8 - b'0') as i64
digit_value(c) == (CHOOSE i \in 1..10 : Digits[i] = c) - 1

\* faulty variant of duration_step: a unit with no digits before it counts as zero
duration_step_lenient(st, c) ==
    IF is_digit(c) THEN
        Ok([st EXCEPT !.number =
               Some((IF st.number.some THEN st.number.val ELSE 0) * 10 + digit_value(c))])
    ELSE IF c = "h" THEN
        LET res == IF st.result.some THEN st.result.val ELSE 0
            acc == IF st.number.some THEN st.number.val ELSE 0
        IN Ok([unit |-> 1, result |-> Some(res + acc * 60), number |-> None])
    ELSE IF c = "m" THEN
        LET res == IF st.result.some THEN st.result.val ELSE 0
            acc == IF st.number.some THEN st.number.val ELSE 0
        IN Ok([unit |-> 0, result |-> Some(acc + res), number |-> None])
    ELSE Err("Unexpected character in duration")

\* duration_value_parser: one iteration of the loop over v.chars(); st holds
\* the locals unit, result and number
duration_step(st, c) ==
    IF is_digit(c) THEN
        Ok([st EXCEPT !.number =
               Some((IF st.number.some THEN st.number.val ELSE 0) * 10 + digit_value(c))])
    ELSE IF c = "h" THEN
        LET res == IF st.result.some THEN st.result.val ELSE 0 IN
        IF ~st.number.some THEN Err("Number expected before unit")
        ELSE Ok([unit |-> 1, result |-> Some(res + st.number.val * 60), number |-> None])
    ELSE IF c = "m" THEN
        LET res == IF st.result.some THEN st.result.val ELSE 0 IN
        IF ~st.number.some THEN Err("Number expected before unit")
        ELSE Ok([unit |-> 0, result |-> Some(st.number.val + res), number |-> None])
    ELSE Err("Unexpected character in duration")

RECURSIVE duration_loop(_, _)
\* for c in v.chars() { ... }, left by the first error
duration_loop(st, v) ==
    IF v = <<>> THEN Ok(st)
    ELSE LET r == duration_step(st, Head(v)) IN
         IF r.ok THEN duration_loop(r.val, Tail(v)) ELSE r

\* faulty variant of duration_value_parser: a trailing number is always hours
duration_value_parser_hours(v) ==
    LET r == duration_loop([unit |-> 60, result |-> None, number |-> None], v) IN
    IF ~r.ok THEN r
    ELSE LET st == r.val IN
         IF st.unit = 0 /\ st.number.some
         THEN Err("Unable to parse duration, unknown unit for value")
         ELSE IF st.result.some /\ st.number.some
              THEN Ok(st.result.val + st.number.val * 60)
         ELSE IF st.result.some THEN Ok(st.result.val)
         ELSE IF st.number.some THEN Ok(st.number.val * 60)
         ELSE Err("Number expected")

\* duration_value_parser; the Duration is kept as its whole minutes
duration_value_parser(v) ==
    LET r == duration_loop([unit |-> 60, result |-> None, number |-> None], v) IN
    IF ~r.ok THEN r
    ELSE LET st == r.val IN
         IF st.unit = 0 /\ st.number.some
         THEN Err("Unable to parse duration, unknown unit for value")
         ELSE IF st.result.some /\ st.number.some
              THEN Ok(st.result.val + st.number.val * st.unit)
         ELSE IF st.result.some THEN Ok(st.result.val)
         ELSE IF st.number.some THEN Ok(st.number.val * st.unit)
         ELSE Err("Number expected")

UpperCase == <<"A", "B", "C", "D", "E", "F", "G", "H", "I", "J", "K", "L", "M",
               "N", "O", "P", "Q", "R", "S", "T", "U", "V", "W", "X", "Y", "Z">>
LowerCase == <<"a", "b", "c", "d", "e", "f", "g", "h", "i", "j", "k", "l", "m",
               "n", "o", "p", "q", "r", "s", "t", "u", "v", "w", "x", "y", "z">>

\* str::to_lowercase on ASCII text
to_lowercase(v) ==
    [i \in 1..Len(v) |->
        IF \E k \in 1..26 : UpperCase[k] = v[i]
        THEN LowerCase[CHOOSE k \in 1..26 : UpperCase[k] = v[i]]
        ELSE v[i]]

\* faulty variant of weekday_value_parser: the text is matched as it is written
weekday_value_parser_exact(v) ==
    LET s == v IN
    IF s \in {<<"m", "o", "n">>, <<"m", "o", "n", "d", "a", "y">>} THEN Ok(0)
    ELSE IF s \in {<<"t", "u", "e">>, <<"t", "u", "e", "s", "d", "a", "y">>} THEN Ok(1)
    ELSE IF s \in {<<"w", "e", "d">>, <<"w", "e", "d", "n", "e", "s", "d", "a", "y">>} THEN Ok(2)
    ELSE IF s \in {<<"t", "h", "u">>, <<"t", "h", "u", "r", "s", "d", "a", "y">>} THEN Ok(3)
    ELSE IF s \in {<<"f", "r", "i">>, <<"f", "r", "i", "d", "a", "y">>} THEN Ok(4)
    ELSE IF s \in {<<"s", "a", "t">>, <<"s", "a", "t", "u", "r", "d", "a", "y">>} THEN Ok(5)
    ELSE IF s \in {<<"s", "u", "n">>, <<"s", "u", "n", "d", "a", "y">>} THEN Ok(6)
    ELSE Err("Invalid weekday")

\* weekday_value_parser; a Weekday is its number of days from Monday
weekday_value_parser(v) ==
    LET s == to_lowercase(v) IN
    IF s \in {<<"m", "o", "n">>, <<"m", "o", "n", "d", "a", "y">>} THEN Ok(0)
    ELSE IF s \in {<<"t", "u", "e">>, <<"t", "u", "e", "s", "d", "a", "y">>} THEN Ok(1)
    ELSE IF s \in {<<"w", "e", "d">>, <<"w", "e", "d", "n", "e", "s", "d", "a", "y">>} THEN Ok(2)
    ELSE IF s \in {<<"t", "h", "u">>, <<"t", "h", "u", "r", "s", "d", "a", "y">>} THEN Ok(3)
    ELSE IF s \in {<<"f", "r", "i">>, <<"f", "r", "i", "d", "a", "y">>} THEN Ok(4)
    ELSE IF s \in {<<"s", "a", "t">>, <<"s", "a", "t", "u", "r", "d", "a", "y">>} THEN Ok(5)
    ELSE IF s \in {<<"s", "u", "n">>, <<"s", "u", "n", "d", "a", "y">>} THEN Ok(6)
    ELSE Err("Invalid weekday")

(***************************************************************************)
(* Prompts of utils.rs; term is the sequence of characters still to be     *)
(* typed on the terminal, and every prompt returns its result, the rest of *)
(* the terminal input and the number of reads it made                      *)
(***************************************************************************)
MAX_ATTEMPTS == 3

\* Term::read_char: one key, or an error when the input has ended
read_char(term) ==
    IF term = <<>> THEN [res |-> Err("read_char"), term |-> term]
    ELSE [res |-> Ok(Head(term)), term |-> Tail(term)]

\* rl.readline(""): the characters up to the next newline, or an error when
\* the input has ended
readline(term) ==
    IF term = <<>> THEN [res |-> Err("Eof"), term |-> term]
    ELSE LET ends == {i \in 1..Len(term) : term[i] = "\n"}
             n == IF ends = {} THEN Len(term) + 1
                  ELSE CHOOSE i \in ends : \A j \in ends : i <= j
         IN [res |-> Ok(SubSeq(term, 1, n - 1)),
             term |-> SubSeq(term, n + 1, Len(term))]

\* str::trim on a line of spaces and other characters
trim(buffer) ==
    LET kept == {i \in 1..Len(buffer) : buffer[i] # " "} IN
    IF kept = {} THEN <<>>
    ELSE SubSeq(buffer,
                CHOOSE i \in kept : \A j \in kept : i <= j,
                CHOOSE i \in kept : \A j \in kept : j <= i)

RECURSIVE parse_digits(_)
\* the decimal value of a sequence of digits
parse_digits(ds) ==
    IF ds = <<>> THEN 0
    ELSE parse_digits(SubSeq(ds, 1, Len(ds) - 1)) * 10 + digit_value(ds[Len(ds)])

\* <i32 as FromStr>::from_str: an optional sign and at least one digit, the
\* value within i32
parse_i32(str) ==
    LET negative == str # <<>> /\ str[1] = "-"
        digits == IF str # <<>> /\ str[1] \in {"+", "-"} THEN Tail(str) ELSE str
        nonzero == {i \in 1..Len(digits) : digits[i] # "0"}
        significant == IF nonzero = {} THEN <<>>
                       ELSE SubSeq(digits, CHOOSE i \in nonzero : \A j \in nonzero : i <= j,
                                   Len(digits))
    IN IF digits = <<>> THEN Err("cannot parse integer from empty string")
       ELSE IF \E i \in 1..Len(digits) : ~is_digit(digits[i])
            THEN Err("invalid digit found in string")
       ELSE IF Len(significant) <= 9
            THEN Ok(IF negative THEN 0 - parse_digits(significant)
                    ELSE parse_digits(significant))
       ELSE LET high == parse_digits(SubSeq(significant, 1, 9))
                low == digit_value(significant[Len(significant)])
            IN IF Len(significant) > 10 \/ high > 214748364
                  \/ (high = 214748364 /\ low > (IF negative THEN 8 ELSE 7))
               THEN Err("number too large or too small to fit in target type")
               ELSE Ok(IF negative THEN (0 - high * 10) - low ELSE high * 10 + low)

\* str.parse::<T>() for the two types the prompts are used with
from_str(T, str) == IF T = "i32" THEN parse_i32(str) ELSE Ok(str)

RECURSIVE yn_prompt_loop(_, _, _)
\* yn_prompt: the loop, entered with the value of attempt
yn_prompt_loop(term, attempt, reads) ==
    LET answer == read_char(term) IN
    IF ~answer.res.ok
    THEN [res |-> answer.res, term |-> answer.term, reads |-> reads + 1]
    ELSE IF answer.res.val \in {"y", "Y", "\n"}
    THEN [res |-> Ok(TRUE), term |-> answer.term, reads |-> reads + 1]
    ELSE IF answer.res.val \in {"n", "N"}
    THEN [res |-> Ok(FALSE), term |-> answer.term, reads |-> reads + 1]
    ELSE IF attempt + 1 > MAX_ATTEMPTS
    THEN [res |-> Err("Unable to parse response in 3 attempts"),
          term |-> answer.term, reads |-> reads + 1]
    ELSE yn_prompt_loop(answer.term, attempt + 1, reads + 1)

\* faulty variant of yn_prompt: the attempts are counted from zero
yn_prompt_from_zero(term) == yn_prompt_loop(term, 0, 0)

\* yn_prompt
yn_prompt(term) == yn_prompt_loop(term, 1, 0)

\* prompt_opt::<T>
prompt_opt(T, term) ==
    LET buffer == readline(term) IN
    IF ~buffer.res.ok THEN [res |-> buffer.res, term |-> buffer.term, reads |-> 1]
    ELSE LET str == trim(buffer.res.val)
             parsed == from_str(T, str)
         IN [res |-> IF str = <<>> THEN Ok(None)
                     ELSE IF parsed.ok THEN Ok(Some(parsed.val)) ELSE parsed,
             term |-> buffer.term, reads |-> 1]

RECURSIVE prompt_loop(_, _, _, _)
\* prompt::<T>: the loop, entered with the value of attempt
prompt_loop(T, term, attempt, reads) ==
    LET buffer == readline(term) IN
    IF ~buffer.res.ok
    THEN [res |-> buffer.res, term |-> buffer.term, reads |-> reads + 1]
    ELSE LET str == trim(buffer.res.val)
             parsed == from_str(T, str)
         IN IF str # <<>> /\ parsed.ok
            THEN [res |-> parsed, term |-> buffer.term, reads |-> reads + 1]
            ELSE IF attempt + 1 > 3
            THEN [res |-> Err("Unable to parse response in 3 attempts"),
                  term |-> buffer.term, reads |-> reads + 1]
            ELSE prompt_loop(T, buffer.term, attempt + 1, reads + 1)

\* prompt::<T>
prompt(T, term) == prompt_loop(T, term, 1, 0)

(***************************************************************************)
(* The tables projects (key id) and default_project (key id, one row with  *)
(* id 0) and the functions of projects.rs; every function that prompts     *)
(* returns its result, the tables and the rest of the terminal input       *)
(***************************************************************************)
\* the rowid SQLite gives to a row inserted without id: one more than the largest
next_id(rows) ==
    IF rows = {} THEN 1
    ELSE (CHOOSE r \in rows : \A q \in rows : q.id <= r.id).id + 1

\* projects::create
projects_create(db, url, name) ==
    LET project == [id |-> next_id(db.projects), url |-> url, name |-> name] IN
    [res |-> Ok(project), db |-> [db EXCEPT !.projects = @ \cup {project}]]

\* projects::get_default: default_project.find(0).inner_join(projects)
get_default(db) ==
    LET found == {p \in db.projects :
                     \E d \in db.default_project : d.id = 0 /\ d.project_id = p.id}
    IN IF found = {} THEN None ELSE Some(CHOOSE p \in found : TRUE)

\* faulty variant of set_default: the project is not looked up first
set_default_unchecked(db, id) ==
    [res |-> Ok(<<>>),
     db |-> [db EXCEPT !.default_project =
                {r \in @ : r.id # 0} \cup {[id |-> 0, project_id |-> id]}]]

\* projects::set_default
set_default(db, id) ==
    IF ~\E p \in db.projects : p.id = id
    THEN [res |-> Err("Project doesn't exist"), db |-> db]
    ELSE [res |-> Ok(<<>>),
          db |-> [db EXCEPT !.default_project =
                     {r \in @ : r.id # 0} \cup {[id |-> 0, project_id |-> id]}]]

\* projects::create_interactive, from the answer to the [Y/n] question on
projects_create_confirmed(db, project_name, project_url, confirmed) ==
    IF ~confirmed.res.ok
    THEN [res |-> confirmed.res, db |-> db, term |-> confirmed.term]
    ELSE IF confirmed.res.val
    THEN LET created == projects_create(db, project_url, project_name) IN
         [res |-> created.res, db |-> created.db, term |-> confirmed.term]
    ELSE [res |-> Err("A project wasn't created"), db |-> db, term |-> confirmed.term]

\* projects::create_interactive, from the answer to prompt("URL") on
projects_create_with_url(db, project_name, project_url) ==
    IF ~project_url.res.ok
    THEN [res |-> project_url.res, db |-> db, term |-> project_url.term]
    ELSE projects_create_confirmed(db, project_name, project_url.res.val,
                                   yn_prompt(project_url.term))

\* projects::create_interactive, from the answer to prompt_opt("Project name") on
projects_create_with_name(db, project_name) ==
    IF ~project_name.res.ok
    THEN [res |-> project_name.res, db |-> db, term |-> project_name.term]
    ELSE projects_create_with_url(db, project_name.res.val,
                                  prompt("String", project_name.term))

\* projects::create_interactive
projects_create_interactive(db, term) ==
    projects_create_with_name(db, prompt_opt("String", term))

\* projects::set_default_interactive (list_all only prints)
set_default_interactive(db, term) ==
    LET project_id == prompt("i32", term) IN
    IF ~project_id.res.ok
    THEN [res |-> project_id.res, db |-> db, term |-> project_id.term]
    ELSE LET stored == set_default(db, project_id.res.val) IN
         [res |-> stored.res, db |-> stored.db, term |-> project_id.term]

\* get_default_or_create_interactive, from the result of create_interactive on
set_created_default(project) ==
    IF ~project.res.ok THEN project
    ELSE LET stored == set_default(project.db, project.res.val.id) IN
         [res |-> IF stored.res.ok THEN project.res ELSE stored.res,
          db |-> stored.db, term |-> project.term]

\* projects::get_default_or_create_interactive
get_default_or_create_interactive(db, term) ==
    LET default == get_default(db) IN
    IF default.some THEN [res |-> Ok(default.val), db |-> db, term |-> term]
    ELSE set_created_default(projects_create_interactive(db, term))

(***************************************************************************)
(* The table tasks (key id) and the functions of tasks.rs                  *)
(***************************************************************************)
\* .first(conn).optional() on a query for ids: the row SQLite meets first,
\* the one with the smallest rowid
first_id(ids) ==
    IF ids = {} THEN None ELSE Some(CHOOSE i \in ids : \A j \in ids : i <= j)

\* tasks::new_task
new_task(db, task) ==
    LET id == next_id(db.tasks) IN
    [res |-> Ok(id),
     db |-> [db EXCEPT !.tasks = @ \cup {[id |-> id, project_id |-> task.project_id,
                                          name |-> task.name, issue |-> task.issue]}]]

\* tasks::get_by_issue
get_by_issue(db, project, issue) ==
    first_id({t.id : t \in {r \in db.tasks : r.project_id = project /\ r.issue = Some(issue)}})

\* tasks::get_by_name
get_by_name(db, project, name) ==
    first_id({t.id : t \in {r \in db.tasks : r.project_id = project /\ r.name = name}})

\* tasks::create_interactive, from the answer to the [Y/n] question on
tasks_create_confirmed(db, task, confirmed) ==
    IF ~confirmed.res.ok
    THEN [res |-> confirmed.res, db |-> db, term |-> confirmed.term]
    ELSE IF confirmed.res.val
    THEN LET created == new_task(db, task) IN
         [res |-> created.res, db |-> created.db, term |-> confirmed.term]
    ELSE [res |-> Err("A task wasn't created"), db |-> db, term |-> confirmed.term]

\* tasks::create_interactive, from the issue number on
tasks_create_with_issue(db, project, task_name, issue_number) ==
    IF ~issue_number.res.ok
    THEN [res |-> issue_number.res, db |-> db, term |-> issue_number.term]
    ELSE tasks_create_confirmed(db,
                                [project_id |-> project, name |-> task_name,
                                 issue |-> issue_number.res.val],
                                yn_prompt(issue_number.term))

\* tasks::create_interactive, from the answer to prompt("Task name") on
tasks_create_with_name(db, project, issue, task_name) ==
    IF ~task_name.res.ok
    THEN [res |-> task_name.res, db |-> db, term |-> task_name.term]
    ELSE tasks_create_with_issue(db, project, task_name.res.val,
             IF ~issue.some THEN prompt_opt("i32", task_name.term)
             ELSE [res |-> Ok(issue), term |-> task_name.term, reads |-> 0])

\* tasks::create_interactive
tasks_create_interactive(db, project, issue, term) ==
    tasks_create_with_name(db, project, issue, prompt("String", term))

\* faulty variant of get_or_create_interactive: a task given by issue and
\* name is inserted without looking for it first
get_or_create_interactive_insert(db, project, issue, name, term) ==
    IF ~issue.some /\ ~name.some THEN tasks_create_interactive(db, project, None, term)
    ELSE IF ~issue.some THEN
        LET task == get_by_name(db, project, name.val) IN
        IF task.some THEN [res |-> Ok(task.val), db |-> db, term |-> term]
        ELSE LET created == new_task(db, [project_id |-> project, issue |-> None,
                                          name |-> name.val])
             IN [res |-> created.res, db |-> created.db, term |-> term]
    ELSE IF ~name.some THEN
        LET task == get_by_issue(db, project, issue.val) IN
        IF task.some THEN [res |-> Ok(task.val), db |-> db, term |-> term]
        ELSE tasks_create_interactive(db, project, Some(issue.val), term)
    ELSE
        LET created == new_task(db, [project_id |-> project, name |-> name.val,
                                     issue |-> Some(issue.val)])
        IN [res |-> created.res, db |-> created.db, term |-> term]

\* tasks::get_or_create_interactive
get_or_create_interactive(db, project, issue, name, term) ==
    IF ~issue.some /\ ~name.some THEN tasks_create_interactive(db, project, None, term)
    ELSE IF ~issue.some THEN
        LET task == get_by_name(db, project, name.val) IN
        IF task.some THEN [res |-> Ok(task.val), db |-> db, term |-> term]
        ELSE LET created == new_task(db, [project_id |-> project, issue |-> None,
                                          name |-> name.val])
             IN [res |-> created.res, db |-> created.db, term |-> term]
    ELSE IF ~name.some THEN
        LET task == get_by_issue(db, project, issue.val) IN
        IF task.some THEN [res |-> Ok(task.val), db |-> db, term |-> term]
        ELSE tasks_create_interactive(db, project, Some(issue.val), term)
    ELSE
        LET task == first_id({t.id : t \in {r \in db.tasks :
                              /\ r.project_id = project
                              /\ r.issue = Some(issue.val)
                              /\ r.name = name.val}})
        IN IF task.some THEN [res |-> Ok(task.val), db |-> db, term |-> term]
           ELSE LET created == new_task(db, [project_id |-> project, name |-> name.val,
                                             issue |-> Some(issue.val)])
                IN [res |-> created.res, db |-> created.db, term |-> term]

(***************************************************************************)
(* The table log_entries (key date, task_id) and the functions of          *)
(* log_entries.rs; a Duration is kept as its whole minutes, within i32,    *)
(* where the cast `as i32` and Duration::minutes keep the value            *)
(***************************************************************************)
\* DbNewEntry::from(LogEntry)
DbNewEntry_from(entry) ==
    [date |-> entry.date, task_id |-> entry.task, duration_minutes |-> entry.duration]

\* faulty variant of new_log: the stored minutes are replaced by the new ones
new_log_replace(db, entry) ==
    [db EXCEPT !.log_entries =
        {r \in @ : ~(r.date = entry.date /\ r.task_id = entry.task_id)} \cup {entry}]

\* log_entries::new_log: insert, or on conflict on (date, task_id) add the
\* excluded duration_minutes to the stored ones
new_log(db, entry) ==
    [db EXCEPT !.log_entries =
        IF \E r \in @ : r.date = entry.date /\ r.task_id = entry.task_id
        THEN {IF r.date = entry.date /\ r.task_id = entry.task_id
              THEN [r EXCEPT !.duration_minutes = @ + entry.duration_minutes]
              ELSE r : r \in @}
        ELSE @ \cup {entry}]

\* log_entries::add_log
add_log(db, entry) == new_log(db, DbNewEntry_from(entry))

\* log_entries.inner_join(tasks).filter(tasks::project_id.eq(project)) with
\* the two filters on the date when a period is given
joined_entries(db, project, period) ==
    {row \in [log : db.log_entries, task : db.tasks] :
        /\ row.log.task_id = row.task.id
        /\ row.task.project_id = project
        /\ period.some => in_period(period.val, row.log.date)}

RECURSIVE order_by_date(_)
\* .order_by(log_entries::date), rows of one date in the order of the key
order_by_date(rows) ==
    IF rows = {} THEN <<>>
    ELSE LET head == CHOOSE r \in rows : \A q \in rows :
                         \/ to_julian_day(r.log.date) < to_julian_day(q.log.date)
                         \/ /\ r.log.date = q.log.date
                            /\ r.log.task_id <= q.log.task_id
         IN <<head>> \o order_by_date(rows \ {head})

\* LogEntryExpanded::from((DbLogEntry, DbTask))
LogEntryExpanded_from(row) ==
    [task_id |-> row.task.id,
     task_name |-> row.task.name,
     issue_number |-> row.task.issue,
     date |-> row.log.date,
     duration |-> row.log.duration_minutes]

\* log_entries::get_by_day_expanded
get_by_day_expanded(db, project, period) ==
    LET loaded == order_by_date(joined_entries(db, project, period)) IN
    [i \in 1..Len(loaded) |-> LogEntryExpanded_from(loaded[i])]

RECURSIVE issue_fold_first(_, _)
\* faulty variant of issue_fold: later entries of a task already met are dropped
issue_fold_first(acc, loaded) ==
    IF loaded = <<>> THEN acc
    ELSE LET entry == Head(loaded) IN
         IF \E i \in 1..Len(acc) : acc[i].task_id = entry.log.task_id
         THEN issue_fold_first(acc, Tail(loaded))
         ELSE issue_fold_first(Append(acc, LogEntryExpanded_from(entry)), Tail(loaded))

\* faulty variant of get_by_issue_expanded: built on issue_fold_first
get_by_issue_expanded_first(db, project, period) ==
    issue_fold_first(<<>>, order_by_date(joined_entries(db, project, period)))

RECURSIVE issue_fold(_, _)
\* .try_fold(Vec::new(), |mut acc, entry| ...): the minutes of an entry are
\* added to the element of its task, or a new element is pushed
issue_fold(acc, loaded) ==
    IF loaded = <<>> THEN acc
    ELSE LET entry == Head(loaded) IN
         IF \E i \in 1..Len(acc) : acc[i].task_id = entry.log.task_id
         THEN LET el == CHOOSE i \in 1..Len(acc) :
                            /\ acc[i].task_id = entry.log.task_id
                            /\ \A j \in 1..(i - 1) : acc[j].task_id # entry.log.task_id
              IN issue_fold([acc EXCEPT ![el].duration = @ + entry.log.duration_minutes],
                            Tail(loaded))
         ELSE issue_fold(Append(acc, LogEntryExpanded_from(entry)), Tail(loaded))

\* log_entries::get_by_issue_expanded
get_by_issue_expanded(db, project, period) ==
    issue_fold(<<>>, order_by_date(joined_entries(db, project, period)))

(***************************************************************************)
(* Inputs                                                                  *)
(***************************************************************************)
\* first calendar day the clock is drawn from
FirstNow == Date(2023, 12, 1)

NowDates(k) == {sub_days(FirstNow, -i) : i \in 0..(k - 1)}

NowTimes == {Hms(10, 36, 21), Hms(12, 0, 0), Hms(13, 0, 0)}

Thresholds == {None, Some(Hms(13, 0, 0))}

Weekdays == 0..6
Months == 1..12
Days == (0..MaxDay) \cup {100, 255}
Years == {2023 + i : i \in 0..(NumYears - 1)}

\* explicit ISO dates: before, inside and after the range of the clock
ExplicitDates == {sub_days(FirstNow, 100 - 150 * i) : i \in 0..(NumExplicit - 1)}

FlagDateArgs ==
    {[DefaultDateArgs EXCEPT !.today = TRUE],
     [DefaultDateArgs EXCEPT !.yesterday = TRUE],
     DefaultDateArgs}
    \cup {[DefaultDateArgs EXCEPT !.weekday = Some(w)] : w \in Weekdays}
    \cup {[DefaultDateArgs EXCEPT !.date = Some(d)] : d \in ExplicitDates}

DayDateArgs ==
    {[DefaultDateArgs EXCEPT !.day = Some(d)] : d \in Days}
    \cup {[DefaultDateArgs EXCEPT !.day = Some(d), !.month = Some(m)] :
             d \in Days, m \in Months}
    \cup {[DefaultDateArgs EXCEPT !.day = Some(d), !.month = Some(m), !.year = Some(y)] :
             d \in Days, m \in Months, y \in Years}

PeriodArgs ==
    [all : BOOLEAN, today : BOOLEAN, week : BOOLEAN,
     from : {None} \cup {Some(d) : d \in ExplicitDates},
     to : {None} \cup {Some(d) : d \in ExplicitDates}]

\* weekday lists: every list up to MaxListLen, and every set of weekdays in
\* ascending and in descending order
WeekdayLists ==
    UNION {[1..n -> Weekdays] : n \in 0..MaxListLen}
    \cup {SelectSeq(<<0, 1, 2, 3, 4, 5, 6>>, LAMBDA w : w \in S) : S \in SUBSET Weekdays}
    \cup {SelectSeq(<<6, 5, 4, 3, 2, 1, 0>>, LAMBDA w : w \in S) : S \in SUBSET Weekdays}

\* every value of WeekBasedSchedule(u8)
WeeklySchedules == 0..255

\* dates in the months a schedule is expanded for
MonthDates ==
    {Date(2024 + (k \div 12), (k % 12) + 1, d) : k \in 0..(NumMonths - 1), d \in {1, 28}}

\* project ids
Projects == {1, 2}

\* arguments given to `schedule set`: Monday to Friday, rigid; the weekend, flexible
ScheduleArgs ==
    {[weekdays |-> <<0, 1, 2, 3, 4>>, rigid |-> TRUE],
     [weekdays |-> <<6, 5>>, rigid |-> FALSE]}

\* dates given to schedule::log and to `schedule show --for-date`
LogDates == {Date(2024, 12, 1), Date(2024, 12, 20), Date(2025, 2, 10)}

\* characters of the duration texts: digits, the two units and another letter
DurationChars == {"0", "1", "2", "3", "5", "6", "8", "9", "h", "m", "a"}

\* every text up to MaxTextLen, and the longer texts of the test duration_parser
DurationTexts ==
    UNION {[1..n -> DurationChars] : n \in 0..MaxTextLen}
    \cup {<<"6", "h", "2", "1", "m">>, <<"1", "0", "h", "4", "5", "m">>,
          <<"1", "m", "2", "h", "3">>, <<"2", "h", "3", "0", "m", "5">>}

WeekdayNames ==
    <<<<"m", "o", "n", "d", "a", "y">>,
      <<"t", "u", "e", "s", "d", "a", "y">>,
      <<"w", "e", "d", "n", "e", "s", "d", "a", "y">>,
      <<"t", "h", "u", "r", "s", "d", "a", "y">>,
      <<"f", "r", "i", "d", "a", "y">>,
      <<"s", "a", "t", "u", "r", "d", "a", "y">>,
      <<"s", "u", "n", "d", "a", "y">>>>

\* v with the letters at the positions in upper written in upper case
Cased(v, upper) ==
    [i \in 1..Len(v) |->
        IF i \in upper /\ \E k \in 1..26 : LowerCase[k] = v[i]
        THEN UpperCase[CHOOSE k \in 1..26 : LowerCase[k] = v[i]]
        ELSE v[i]]

\* the beginnings of every weekday name (the empty text, the abbreviation and
\* the full name among them), names with a letter too many, one letter
\* dropped or one letter changed, in several mixtures of upper and lower case
WeekdayTexts ==
    LET prefixes == UNION {{SubSeq(WeekdayNames[w], 1, n) :
                                n \in 0..Len(WeekdayNames[w])} : w \in 1..7}
        longer == {WeekdayNames[w] \o <<"s">> : w \in 1..7}
                  \cup {SubSeq(WeekdayNames[w], 1, 3) \o <<".">> : w \in 1..7}
        dropped == {SubSeq(WeekdayNames[w], 1, 1)
                        \o SubSeq(WeekdayNames[w], 3, Len(WeekdayNames[w])) : w \in 1..7}
        changed == {<<"m", "o", "m">>, <<"t", "h", "r">>, <<"s", "a", "n">>,
                    <<"1">>, <<"m", "o", "n", " ">>}
        plain == prefixes \cup longer \cup dropped \cup changed
    IN {Cased(v, upper) : v \in plain, upper \in (SUBSET (1..3)) \cup {1..9, {2, 4, 6, 8}}}

\* the date arguments that give neither an ISO date nor a year
RelativeDateArgs ==
    {a \in FlagDateArgs : ~a.date.some} \cup {a \in DayDateArgs : ~a.year.some}

\* keys pressed at a [Y/n] question: one more than yn_prompt may read
KeyChars == {"y", "Y", "n", "N", "\n", "x", "1"}
KeyInputs == UNION {[1..n -> KeyChars] : n \in 0..(MAX_ATTEMPTS + 1)}

\* characters typed at an input prompt
LineChars == {"1", "x", " ", "\n"}
LineInputs == UNION {[1..n -> LineChars] : n \in 0..MaxInputLen}

\* what the user types while a project command runs: answers that create a
\* project without or with a name, a refusal, an URL left empty three
\* times, nothing at all, and project ids that exist, do not exist, or come
\* after a mistyped line
ProjectInputs ==
    {<<"\n", "u", "\n", "y">>,
     <<"p", "\n", "u", "\n", "\n">>,
     <<"\n", "u", "\n", "n">>,
     <<"\n", "\n", "\n", "\n", "y">>,
     <<>>,
     <<"1", "\n">>,
     <<"2", "\n">>,
     <<"7", "\n">>,
     <<"x", "\n", "\n", "3", "\n">>}

\* issue numbers and task names given with --issue and --name
IssueArgs == {None, Some(7)}
NameArgs == {None, Some(<<"a">>), Some(<<"b">>)}

\* what the user types when a task is created interactively: a name, no
\* issue (or, the issue being known, a newline for yes), yes; a name, an
\* issue, yes; a name and a refusal; nothing at all
TaskInputs ==
    {<<"a", "\n", "\n", "y">>,
     <<"b", "\n", "7", "\n", "y">>,
     <<"a", "\n", "n">>,
     <<>>}

\* two projects, the first one the default, and their tasks, as left by
\* earlier `project create` and `log` commands
StoredProjects ==
    {[id |-> 1, url |-> <<"u">>, name |-> None],
     [id |-> 2, url |-> <<"u">>, name |-> Some(<<"p">>)]}

StoredTasks ==
    {[id |-> 1, project_id |-> 1, name |-> <<"a">>, issue |-> None],
     [id |-> 2, project_id |-> 1, name |-> <<"b">>, issue |-> Some(7)],
     [id |-> 3, project_id |-> 2, name |-> <<"a">>, issue |-> None]}

\* dates and durations of the entries that are logged
EntryDates == {Date(2024, 12, 2), Date(2024, 12, 20)}
EntryMinutes == {30, 60}

\* periods shown: everything, each date alone, both dates at the ends, the
\* days strictly between them, and a period that ends before it starts
ShownPeriods ==
    {None,
     Some(Period(Date(2024, 12, 2), Date(2024, 12, 2))),
     Some(Period(Date(2024, 12, 20), Date(2024, 12, 20))),
     Some(Period(Date(2024, 12, 2), Date(2024, 12, 20))),
     Some(Period(Date(2024, 12, 3), Date(2024, 12, 19))),
     Some(Period(Date(2024, 12, 20), Date(2024, 12, 2)))}

(***************************************************************************)
(* The program                                                             *)
(***************************************************************************)
\* the state a run starts in; arguments are the command lines still to be parsed
InitRun(dates, times, thresholds, arguments) ==
    /\ now \in [date : dates, time : times]
    /\ config \in [day_change_threshold : thresholds]
    /\ pc = "start"
    /\ cmd = "none"
    /\ args \in arguments
    /\ result = None

\* a run on a new database
InitWithArgs(dates, times, thresholds, arguments) ==
    /\ InitRun(dates, times, thresholds, arguments)
    /\ schedule_settings = {}
    /\ schedule_logs = {}
    /\ projects = {}
    /\ default_project = {}
    /\ tasks = {}
    /\ log_entries = {}

InitWith(dates, times, thresholds) == InitWithArgs(dates, times, thresholds, {None})

\* AddLogCmd::dispatch: resolve the date of the entry
ToDate(a) ==
    /\ pc = "start"
    /\ pc' = "done"
    /\ cmd' = "to_date"
    /\ args' = a
    /\ result' = to_date(a, config, now)
    /\ UNCHANGED <<now, config, schedule_settings, schedule_logs,
                   projects, default_project, tasks, log_entries>>

\* ShowCmd::dispatch: resolve the period to show
ToPeriod(a) ==
    /\ pc = "start"
    /\ pc' = "done"
    /\ cmd' = "to_period"
    /\ args' = a
    /\ result' = to_period(a, config, now)
    /\ UNCHANGED <<now, config, schedule_settings, schedule_logs,
                   projects, default_project, tasks, log_entries>>

\* WeekBasedSchedule::new, read back with to_weekdays and is_flexible
ScheduleNew(weekdays, flexible) ==
    /\ pc = "start"
    /\ pc' = "done"
    /\ cmd' = "new"
    /\ args' = [weekdays |-> weekdays, flexible |-> flexible]
    /\ LET schedule == WeekBasedSchedule_new(weekdays, flexible) IN
       result' = [schedule |-> schedule,
                  weekdays |-> to_weekdays(schedule),
                  flexible |-> is_flexible(schedule)]
    /\ UNCHANGED <<now, config, schedule_settings, schedule_logs,
                   projects, default_project, tasks, log_entries>>

\* ScheduleLog::from_weekly, stored with to_bitmap and read back with from_bitmap
ExpandMonth(schedule, date) ==
    /\ pc = "start"
    /\ pc' = "done"
    /\ cmd' = "from_weekly"
    /\ args' = [schedule |-> schedule, date |-> date]
    /\ LET log == from_weekly(schedule, date)
           bitmap == to_bitmap(log)
       IN result' = [log |-> log,
                     bitmap |-> bitmap,
                     restored |-> ScheduleLog_from_bitmap(bitmap)]
    /\ UNCHANGED <<now, config, schedule_settings, schedule_logs,
                   projects, default_project, tasks, log_entries>>

\* the tables behind the connection
Db ==
    [schedule_settings |-> schedule_settings, schedule_logs |-> schedule_logs,
     projects |-> projects, default_project |-> default_project,
     tasks |-> tasks, log_entries |-> log_entries]

\* ScheduleCmd::Set
SetSchedule(project, weekdays, rigid) ==
    /\ pc' = "done"
    /\ cmd' = "set"
    /\ args' = [project |-> project, weekdays |-> weekdays, rigid |-> rigid]
    /\ LET db == schedule_set(Db, project, WeekBasedSchedule_new(weekdays, ~rigid)) IN
       /\ schedule_settings' = db.schedule_settings
       /\ schedule_logs' = db.schedule_logs
    /\ result' = Ok(<<>>)
    /\ UNCHANGED <<now, config, projects, default_project, tasks, log_entries>>

\* schedule::log
LogMonth(project, date) ==
    /\ pc' = "done"
    /\ cmd' = "log"
    /\ args' = [project |-> project, date |-> date]
    /\ LET db == schedule_log(Db, project, date) IN
       /\ schedule_settings' = db.schedule_settings
       /\ schedule_logs' = db.schedule_logs
    /\ result' = Ok(<<>>)
    /\ UNCHANGED <<now, config, projects, default_project, tasks, log_entries>>

\* ScheduleCmd::Show
ShowSchedule(project, for_date) ==
    /\ pc' = "done"
    /\ cmd' = "show"
    /\ args' = [project |-> project, for_date |-> for_date]
    /\ result' =
         IF for_date.some
         THEN LET bitmap == schedule_get_log(Db, project, for_date.val) IN
              IF bitmap.some THEN Ok([calendar |-> bitmap.val]) ELSE Err("No results")
         ELSE LET schedule == schedule_get(Db, project) IN
              IF schedule.some
              THEN Ok([weekdays |-> to_weekdays(schedule.val),
                       flexible |-> is_flexible(schedule.val)])
              ELSE Err("No results")
    /\ UNCHANGED <<now, config, schedule_settings, schedule_logs,
                   projects, default_project, tasks, log_entries>>

InitDate == InitWith(NowDates(NumDays), NowTimes, Thresholds)
NextDate == \E a \in FlagDateArgs : ToDate(a)
SpecDate == InitDate /\ [][NextDate]_vars

InitDay == InitWith(NowDates(NumDays), {Hms(10, 36, 21)}, {None})
NextDay == \E a \in DayDateArgs : ToDate(a)
SpecDay == InitDay /\ [][NextDay]_vars

InitPeriod == InitWith(NowDates(NumDays), NowTimes, Thresholds)
NextPeriod == \E a \in PeriodArgs : ToPeriod(a)
SpecPeriod == InitPeriod /\ [][NextPeriod]_vars

InitCodec == InitWith({FirstNow}, {Hms(12, 0, 0)}, {None})
NextCodec ==
    \/ \E weekdays \in WeekdayLists, flexible \in BOOLEAN : ScheduleNew(weekdays, flexible)
    \/ \E schedule \in WeeklySchedules, date \in MonthDates : ExpandMonth(schedule, date)
SpecCodec == InitCodec /\ [][NextCodec]_vars

InitSchedule == InitWith({FirstNow}, {Hms(12, 0, 0)}, {None})
NextSchedule ==
    \/ \E p \in Projects, a \in ScheduleArgs : SetSchedule(p, a.weekdays, a.rigid)
    \/ \E p \in Projects, date \in LogDates : LogMonth(p, date)
    \/ \E p \in Projects, for_date \in {None} \cup {Some(d) : d \in LogDates} :
           ShowSchedule(p, for_date)
SpecSchedule == InitSchedule /\ [][NextSchedule]_vars

\* value_parser = duration_value_parser of `wlog log --time`
ParseDuration ==
    /\ pc = "start"
    /\ args.value_parser = "duration"
    /\ pc' = "done"
    /\ cmd' = "duration"
    /\ result' = duration_value_parser(args.v)
    /\ UNCHANGED <<now, config, args, schedule_settings, schedule_logs,
                   projects, default_project, tasks, log_entries>>

\* value_parser = weekday_value_parser of `--weekday` and `--weekdays`
ParseWeekday ==
    /\ pc = "start"
    /\ args.value_parser = "weekday"
    /\ pc' = "done"
    /\ cmd' = "weekday"
    /\ result' = weekday_value_parser(args.v)
    /\ UNCHANGED <<now, config, args, schedule_settings, schedule_logs,
                   projects, default_project, tasks, log_entries>>

\* the texts given on the command line, each with the parser of its option
ParseArgs ==
    {[value_parser |-> "duration", v |-> v] : v \in DurationTexts}
    \cup {[value_parser |-> "weekday", v |-> v] : v \in WeekdayTexts}

InitParse == InitWithArgs({FirstNow}, {Hms(12, 0, 0)}, {None}, ParseArgs)
NextParse ==
    \/ ParseDuration
    \/ ParseWeekday
SpecParse == InitParse /\ [][NextParse]_vars

InitRelative == InitWith(NowDates(NumDays), {Hms(12, 0, 0)}, Thresholds)
NextRelative == \E a \in RelativeDateArgs : ToDate(a)
SpecRelative == InitRelative /\ [][NextRelative]_vars

\* yn_prompt on the keys of args.term
YnPrompt ==
    /\ pc = "start"
    /\ args.fn = "yn_prompt"
    /\ pc' = "done"
    /\ cmd' = "yn_prompt"
    /\ result' = yn_prompt(args.term)
    /\ UNCHANGED <<now, config, args, schedule_settings, schedule_logs,
                   projects, default_project, tasks, log_entries>>

\* prompt::<T> on the input of args.term
Prompt ==
    /\ pc = "start"
    /\ args.fn = "prompt"
    /\ pc' = "done"
    /\ cmd' = "prompt"
    /\ result' = prompt(args.T, args.term)
    /\ UNCHANGED <<now, config, args, schedule_settings, schedule_logs,
                   projects, default_project, tasks, log_entries>>

\* prompt_opt::<T> on the input of args.term
PromptOpt ==
    /\ pc = "start"
    /\ args.fn = "prompt_opt"
    /\ pc' = "done"
    /\ cmd' = "prompt_opt"
    /\ result' = prompt_opt(args.T, args.term)
    /\ UNCHANGED <<now, config, args, schedule_settings, schedule_logs,
                   projects, default_project, tasks, log_entries>>

\* what the user is about to type, for each prompt
PromptArgs(fn) ==
    IF fn = "yn_prompt" THEN [fn : {fn}, term : KeyInputs]
    ELSE [fn : {fn}, T : {"i32", "String"}, term : LineInputs]

InitPrompt ==
    \E fn \in {"yn_prompt", "prompt", "prompt_opt"} :
        InitWithArgs({FirstNow}, {Hms(12, 0, 0)}, {None}, PromptArgs(fn))
NextPrompt ==
    \/ YnPrompt
    \/ Prompt
    \/ PromptOpt
SpecPrompt == InitPrompt /\ [][NextPrompt]_vars

\* ProjectCmd::Create
CreateProject(term) ==
    /\ pc' = "done"
    /\ cmd' = "create"
    /\ args' = [term |-> term]
    /\ LET r == projects_create_interactive(Db, term) IN
       /\ Cardinality(r.db.projects) <= MaxProjects
       /\ projects' = r.db.projects
       /\ default_project' = r.db.default_project
       /\ result' = r.res
    /\ UNCHANGED <<now, config, schedule_settings, schedule_logs, tasks, log_entries>>

\* ProjectCmd::Default
SetDefaultProject(term) ==
    /\ pc' = "done"
    /\ cmd' = "set_default"
    /\ args' = [term |-> term]
    /\ LET r == set_default_interactive(Db, term) IN
       /\ projects' = r.db.projects
       /\ default_project' = r.db.default_project
       /\ result' = r.res
    /\ UNCHANGED <<now, config, schedule_settings, schedule_logs, tasks, log_entries>>

\* projects::get_default_or_create_interactive, the first step of every
\* log, task and schedule command
GetDefaultOrCreate(term) ==
    /\ pc' = "done"
    /\ cmd' = "get_default_or_create"
    /\ args' = [term |-> term]
    /\ LET r == get_default_or_create_interactive(Db, term) IN
       /\ Cardinality(r.db.projects) <= MaxProjects
       /\ projects' = r.db.projects
       /\ default_project' = r.db.default_project
       /\ result' = r.res
    /\ UNCHANGED <<now, config, schedule_settings, schedule_logs, tasks, log_entries>>

InitProjects == InitWith({FirstNow}, {Hms(12, 0, 0)}, {None})
NextProjects ==
    \/ \E term \in ProjectInputs : CreateProject(term)
    \/ \E term \in ProjectInputs : SetDefaultProject(term)
    \/ \E term \in ProjectInputs : GetDefaultOrCreate(term)
SpecProjects == InitProjects /\ [][NextProjects]_vars

\* tasks::get_or_create_interactive, as called by AddLogCmd::dispatch
GetOrCreateTask(project, issue, name, term) ==
    /\ pc' = "done"
    /\ cmd' = "get_or_create"
    /\ args' = [project |-> project, issue |-> issue, name |-> name, term |-> term]
    /\ LET r == get_or_create_interactive(Db, project, issue, name, term) IN
       /\ Cardinality(r.db.tasks) <= MaxTasks
       /\ tasks' = r.db.tasks
       /\ result' = r.res
    /\ UNCHANGED <<now, config, schedule_settings, schedule_logs,
                   projects, default_project, log_entries>>

InitTasks == InitWith({FirstNow}, {Hms(12, 0, 0)}, {None})
NextTasks ==
    \E project \in Projects, issue \in IssueArgs, name \in NameArgs, term \in TaskInputs :
        GetOrCreateTask(project, issue, name, term)
SpecTasks == InitTasks /\ [][NextTasks]_vars

\* log_entries::add_log, the last step of AddLogCmd::dispatch
AddLog(date, task, minutes) ==
    /\ pc' = "done"
    /\ cmd' = "add_log"
    /\ args' = [date |-> date, task |-> task, minutes |-> minutes]
    /\ LET db == add_log(Db, [date |-> date, task |-> task, duration |-> minutes]) IN
       /\ \A r \in db.log_entries : r.duration_minutes <= MaxMinutes
       /\ log_entries' = db.log_entries
    /\ result' = Ok(<<>>)
    /\ UNCHANGED <<now, config, schedule_settings, schedule_logs,
                   projects, default_project, tasks>>

\* log_entries::show_by_day: the rows of the table it prints
ShowByDay(project, period) ==
    /\ pc' = "done"
    /\ cmd' = "show_by_day"
    /\ args' = [project |-> project, period |-> period]
    /\ result' = Ok(get_by_day_expanded(Db, project, period))
    /\ UNCHANGED <<now, config, schedule_settings, schedule_logs,
                   projects, default_project, tasks, log_entries>>

\* log_entries::show_by_issue: the rows of the table it prints
ShowByIssue(project, period) ==
    /\ pc' = "done"
    /\ cmd' = "show_by_issue"
    /\ args' = [project |-> project, period |-> period]
    /\ result' = Ok(get_by_issue_expanded(Db, project, period))
    /\ UNCHANGED <<now, config, schedule_settings, schedule_logs,
                   projects, default_project, tasks, log_entries>>

InitLogs ==
    /\ InitRun({FirstNow}, {Hms(12, 0, 0)}, {None}, {None})
    /\ schedule_settings = {}
    /\ schedule_logs = {}
    /\ projects = StoredProjects
    /\ default_project = {[id |-> 0, project_id |-> 1]}
    /\ tasks = StoredTasks
    /\ log_entries = {}
NextLogs ==
    \/ \E date \in EntryDates, task \in {t.id : t \in tasks}, minutes \in EntryMinutes :
           AddLog(date, task, minutes)
    \/ \E project \in Projects, period \in ShownPeriods : ShowByDay(project, period)
    \/ \E project \in Projects, period \in ShownPeriods : ShowByIssue(project, period)
SpecLogs == InitLogs /\ [][NextLogs]_vars

Done(c) == pc = "done" /\ cmd = c

(***************************************************************************)
(* Properties of DateArgGroup::to_date                                     *)
(***************************************************************************)
\* days from date a to date b (negative when b is before a)
DaysBetween(a, b) == to_julian_day(b) - to_julian_day(a)

OnlyWeekday == Done("to_date") /\ args.weekday.some
OnlyDate == Done("to_date") /\ args.date.some
OnlyDay == Done("to_date") /\ args.day.some /\ ~args.month.some /\ ~args.year.some
DayMonth == Done("to_date") /\ args.day.some /\ args.month.some /\ ~args.year.some
Unspecified == Done("to_date") /\ args = DefaultDateArgs

\* C1 as stated: with only a weekday w given, to_date returns the most recent
\* date <= today whose weekday is w, today itself when today's weekday is w.
C1_NearestInclusive ==
    OnlyWeekday =>
        /\ result.ok
        /\ weekday(result.val) = args.weekday.val
        /\ DaysBetween(result.val, now.date) \in 0..6

\* C1 amended: with only a weekday w given, to_date returns the most recent
\* date strictly before today whose weekday is w; when today's weekday is w
\* it returns the date 7 days earlier, never today.
C1_NearestStrictlyPast ==
    OnlyWeekday =>
        /\ result.ok
        /\ weekday(result.val) = args.weekday.val
        /\ DaysBetween(result.val, now.date) \in 1..7

C1_Witness ==
    /\ OnlyWeekday
    /\ weekday(now.date) = args.weekday.val
    /\ result = Ok(sub_days(now.date, 7))

\* the calendar month before the month of date
PrecedingMonth(date) ==
    IF date.month = 1 THEN [year |-> date.year - 1, month |-> 12]
    ELSE [year |-> date.year, month |-> date.month - 1]

\* C2: with only a day given and day > today's day-of-month, to_date returns
\* that day of the month immediately preceding today's month, or fails when
\* that month has no such day; it never returns a date two months back.
C2_PrecedingMonthOrError ==
    (OnlyDay /\ args.day.val > now.date.day) =>
        LET pm == PrecedingMonth(now.date) IN
        IF args.day.val <= days_in_month(pm.year, pm.month)
        THEN result = Ok(Date(pm.year, pm.month, args.day.val))
        ELSE ~result.ok

\* C3: with only a day given and 1 <= day <= today's day-of-month, to_date
\* returns that day of today's own month and year.
C3_SameMonth ==
    (OnlyDay /\ args.day.val >= 1 /\ args.day.val <= now.date.day) =>
        result = Ok(Date(now.date.year, now.date.month, args.day.val))

C3_Witness ==
    /\ OnlyDay
    /\ now.date = Date(2025, 1, 26)
    /\ args.day.val = 3
    /\ result = Ok(Date(2025, 1, 3))

\* C4: with day and month given and no year, to_date uses today's year minus
\* one when (month, day) is strictly after today's (month, day) and today's
\* year otherwise; a successful result is <= today and no later year gives
\* that month and day on or before today; when the chosen (year, month, day)
\* does not exist it fails and does not fall back to another year.
C4_MostRecentYear ==
    DayMonth =>
        LET m == args.month.val
            d == args.day.val
            after == m > now.date.month \/ (m = now.date.month /\ d > now.date.day)
            y == IF after THEN now.date.year - 1 ELSE now.date.year
        IN IF d >= 1 /\ d <= days_in_month(y, m)
           THEN /\ result = Ok(Date(y, m, d))
                /\ DaysBetween(result.val, now.date) >= 0
                /\ \A later \in (y + 1)..(y + 8) :
                       d <= days_in_month(later, m) =>
                           DaysBetween(Date(later, m, d), now.date) < 0
           ELSE ~result.ok

C4_Witness ==
    /\ DayMonth
    /\ args.month.val = 12 /\ args.day.val = 31
    /\ now.date = Date(2024, 1, 15)
    /\ result = Ok(Date(2023, 12, 31))

\* C5: with no date field given, to_date returns today minus one day when the
\* time of day is strictly before the day-change threshold and today when it
\* is at or after it; the threshold is the configured one, 12:00:00 if unset.
C5_Threshold ==
    Unspecified =>
        LET threshold == IF config.day_change_threshold.some
                         THEN config.day_change_threshold.val
                         ELSE 12 * 3600
        IN /\ result.ok
           /\ DaysBetween(result.val, now.date) = (IF now.time < threshold THEN 1 ELSE 0)

C5_Witness ==
    /\ Unspecified
    /\ ~config.day_change_threshold.some
    /\ now.time = Hms(10, 36, 21)
    /\ result.ok /\ DaysBetween(result.val, now.date) = 1

\* C6: with only an explicit date d given, to_date returns exactly d, for
\* every clock reading and every day-change threshold.
C6_ExplicitDate == OnlyDate => result = Ok(args.date.val)

C6_Witness ==
    /\ OnlyDate
    /\ now.time < day_change_threshold(config)
    /\ DaysBetween(now.date, args.date.val) > 0
    /\ result = Ok(args.date.val)

\* C7: the flags ignore the day-change threshold: with `today` set to_date
\* returns the calendar date of now, with `yesterday` set that date minus
\* one day, at every time of day.
C7_FlagsIgnoreThreshold ==
    /\ (Done("to_date") /\ args.today) => result = Ok(now.date)
    /\ (Done("to_date") /\ args.yesterday) =>
           (result.ok /\ DaysBetween(result.val, now.date) = 1)

C7_Witness ==
    /\ Done("to_date") /\ args.today
    /\ now.time < day_change_threshold(config)
    /\ result = Ok(now.date)

\* C8: a day is never clamped: whenever to_date succeeds with a day given,
\* the result has that day-of-month (and the given month and year); for a
\* day that exists in no month (0, 32..255) to_date fails for every today.
C8_NeverClamped ==
    (Done("to_date") /\ args.day.some) =>
        /\ result.ok =>
               /\ result.val.day = args.day.val
               /\ args.month.some => result.val.month = args.month.val
               /\ args.year.some => result.val.year = args.year.val
        /\ args.day.val \notin 1..31 => ~result.ok

C8_Witness ==
    /\ OnlyDay
    /\ args.day.val = 100
    /\ result = Err("ComponentRange")

(***************************************************************************)
(* Properties of PeriodArgGroup::to_period                                 *)
(***************************************************************************)
DefaultPeriod == Done("to_period") /\ ~args.all /\ ~args.today /\ ~args.week

\* the day that the threshold rule makes of now
LogicalToday ==
    IF now.time < (IF config.day_change_threshold.some
                   THEN config.day_change_threshold.val ELSE 12 * 3600)
    THEN from_julian_day(to_julian_day(now.date) - 1)
    ELSE now.date

\* C9 as stated: every period returned by to_period has from <= to, for
\* every combination of the flags and of explicit or absent from and to.
C9_FromBeforeTo ==
    (Done("to_period") /\ result.some) =>
        DaysBetween(result.val.from, result.val.to) >= 0

\* C9 amended: a period returned for the today or week shortcut, or with
\* neither from nor to given, has from <= to; an explicit from or to is
\* taken as given and the period has from <= to only when the given value
\* is ordered with the other end (the other given value or its default).
C9_FromBeforeToUnlessExplicit ==
    (Done("to_period") /\ result.some) =>
        /\ (args.today \/ args.week \/ (~args.from.some /\ ~args.to.some)) =>
               DaysBetween(result.val.from, result.val.to) >= 0
        /\ (DefaultPeriod /\ args.from.some) => result.val.from = args.from.val
        /\ (DefaultPeriod /\ args.to.some) => result.val.to = args.to.val

C9_Witness ==
    /\ DefaultPeriod /\ ~args.from.some /\ ~args.to.some
    /\ result.some
    /\ result.val.from = Date(2024, 2, 1)
    /\ result.val.to = Date(2024, 2, 29)

\* C10 as stated: without a shortcut flag and without from, to_period sets
\* from to the first day of the month that contains logical today.
C10_FromCurrentMonth ==
    (DefaultPeriod /\ ~args.from.some) =>
        /\ result.some
        /\ result.val.from = Date(LogicalToday.year, LogicalToday.month, 1)

\* C10 amended: without a shortcut flag and without from, to_period sets
\* from to the first day of the month preceding the month of logical today.
C10_FromPrecedingMonth ==
    (DefaultPeriod /\ ~args.from.some) =>
        LET pm == PrecedingMonth(LogicalToday) IN
        /\ result.some
        /\ result.val.from = Date(pm.year, pm.month, 1)

C10_Witness ==
    /\ DefaultPeriod /\ ~args.from.some
    /\ LogicalToday.month = 1
    /\ result.some
    /\ result.val.from = Date(LogicalToday.year - 1, 12, 1)

\* the last day of the calendar month before the month of date
LastDayOfPrecedingMonth(date) ==
    LET pm == PrecedingMonth(date)
    IN Date(pm.year, pm.month, days_in_month(pm.year, pm.month))

\* C11: without a shortcut flag and without to, to_period sets to to logical
\* today minus as many days as its day-of-month; that is the last day of the
\* month preceding logical today's month, never today or the end of the
\* current month.
C11_ToLastDayOfPrecedingMonth ==
    (DefaultPeriod /\ ~args.to.some) =>
        /\ result.some
        /\ DaysBetween(result.val.to, LogicalToday) = LogicalToday.day
        /\ result.val.to = LastDayOfPrecedingMonth(LogicalToday)
        /\ result.val.to # LogicalToday
        /\ result.val.to.month # LogicalToday.month

C11_Witness ==
    /\ DefaultPeriod /\ ~args.to.some /\ args.from.some
    /\ LogicalToday = Date(2024, 3, 31)
    /\ result.some
    /\ result.val.to = Date(2024, 2, 29)

\* C12: to_period returns None whenever all is set, whatever today, week,
\* from and to are, and Some period in every other case.
C12_NoneIffAll ==
    Done("to_period") => (result.some <=> ~args.all)

C12_Witness ==
    /\ Done("to_period")
    /\ args.all /\ args.today /\ args.week /\ args.from.some /\ args.to.some
    /\ result = None

\* C13: the today shortcut gives the one-day period from = to = logical
\* today (now's date minus one day before the threshold, now's date
\* otherwise); an explicit from or to given with it changes nothing.
C13_TodayShortcut ==
    (Done("to_period") /\ ~args.all /\ args.today) =>
        result = Some(Period(LogicalToday, LogicalToday))

C13_Witness ==
    /\ Done("to_period") /\ ~args.all /\ args.today
    /\ args.from.some /\ args.to.some
    /\ now.time < day_change_threshold(config)
    /\ result.some
    /\ DaysBetween(result.val.from, now.date) = 1
    /\ result.val.to = result.val.from

\* the calendar dates that a period selects, looked for around logical today
DatesSelected(period) ==
    {j \in (to_julian_day(LogicalToday) - 10)..(to_julian_day(LogicalToday) + 3) :
        in_period(period, from_julian_day(j))}

\* C14: the week shortcut shows the last 7 days: the inclusive period ends
\* on logical today and contains exactly 7 calendar dates.
C14_WeekIsSevenDates ==
    (Done("to_period") /\ ~args.all /\ ~args.today /\ args.week) =>
        /\ result.some
        /\ result.val.to = LogicalToday
        /\ Cardinality(DatesSelected(result.val)) = 7

(***************************************************************************)
(* Properties of the schedule bitmaps                                      *)
(***************************************************************************)
\* the elements of a sequence
Range(seq) == {seq[i] : i \in 1..Len(seq)}

\* C15: WeekBasedSchedule::new returns the byte whose bit i (0..6, Monday = 0)
\* is 1 exactly when weekday i occurs in the list and whose bit 7 is the
\* flexible flag, whatever the order and the repetitions of the list.
C15_EncodeWeekly ==
    Done("new") =>
        /\ result.schedule \in 0..255
        /\ \A i \in 0..6 : (Bit(result.schedule, i) = 1) <=> (i \in Range(args.weekdays))
        /\ (Bit(result.schedule, 7) = 1) <=> args.flexible

C15_Witness ==
    /\ Done("new")
    /\ args.weekdays = <<4, 0, 4>>
    /\ args.flexible
    /\ result.schedule = 145

\* C16: round trip of the weekly schedule: for every set of weekdays given
\* in any order and every flexible flag, to_weekdays of the encoded schedule
\* lists the set from Monday to Sunday without duplicates and is_flexible
\* gives the flag back.
C16_WeeklyRoundTrip ==
    Done("new") =>
        /\ Range(result.weekdays) = Range(args.weekdays)
        /\ \A i \in 1..Len(result.weekdays), j \in 1..Len(result.weekdays) :
               i < j => result.weekdays[i] < result.weekdays[j]
        /\ result.flexible = args.flexible

C16_Witness ==
    /\ Done("new")
    /\ args.weekdays = <<6, 2, 0>>
    /\ ~args.flexible
    /\ result.weekdays = <<0, 2, 6>>
    /\ result.flexible = FALSE

\* C17: for every weekly schedule and every month, the log of from_weekly
\* has is_workday(d) equal to "the weekday of day d of that month is in the
\* schedule" for every day d of the month; Monday to Friday, rigid, expanded
\* for December 2024 is 0b01100111110011111001111100111110 bit for bit.
C17_WorkdaysAgree ==
    Done("from_weekly") =>
        /\ \A d \in 1..days_in_month(args.date.year, args.date.month) :
               is_workday(result.log, d) <=>
                   (Bit(args.schedule, weekday(Date(args.date.year, args.date.month, d))) = 1)
        /\ (args.schedule = 31 /\ args.date.year = 2024 /\ args.date.month = 12) =>
               result.bitmap = 1741659966

C17_Witness ==
    /\ Done("from_weekly")
    /\ args.schedule = 31
    /\ args.date = Date(2024, 12, 1)
    /\ result.bitmap = 1741659966
    /\ result.log = (1..5) \cup (8..12) \cup (15..19) \cup (22..26) \cup (29..30)

\* C18: in every bitmap of from_weekly for a month of n days the bits n..30
\* are 0, so is_workday(d) is false for every d with n < d <= 31.
C18_NoBitsBeyondMonth ==
    Done("from_weekly") =>
        \A d \in 1..31 :
            d > days_in_month(args.date.year, args.date.month) => ~is_workday(result.log, d)

C18_Witness ==
    /\ Done("from_weekly")
    /\ args.schedule = 255
    /\ args.date = Date(2025, 2, 28)
    /\ result.log = (0..27) \cup {31}

\* C19: bit 31 of the bitmap of from_weekly is the flexible flag (bit 7) of
\* the weekly schedule, whatever its weekday bits, and it survives storage:
\* from_bitmap(to_bitmap(log)) has the 32 bits of log, also when bit 31 is
\* set and the stored i32 is negative.
C19_FlexibleBitSurvives ==
    Done("from_weekly") =>
        /\ (31 \in result.log) <=> (Bit(args.schedule, 7) = 1)
        /\ (31 \in result.log) <=> (result.bitmap < 0)
        /\ result.restored = result.log

C19_Witness ==
    /\ Done("from_weekly")
    /\ args.schedule = 128 + 31
    /\ 31 \in result.log
    /\ result.bitmap < 0
    /\ result.restored = result.log

(***************************************************************************)
(* Properties of the stored schedules                                      *)
(***************************************************************************)
DbNext ==
    [schedule_settings |-> schedule_settings', schedule_logs |-> schedule_logs',
     projects |-> projects', default_project |-> default_project',
     tasks |-> tasks', log_entries |-> log_entries']

\* C20: monthly snapshots are frozen: once schedule::log has stored a bitmap
\* for (project, month), schedule::set calls for any project leave the value
\* of schedule::get_log for it unchanged; the stored bitmap changes only
\* when schedule::log runs again for the same project and month.
C20_SnapshotsFrozen ==
    [][\A p \in Projects, d \in LogDates :
          schedule_get_log(Db, p, d).some =>
              \/ schedule_get_log(DbNext, p, d) = schedule_get_log(Db, p, d)
              \/ /\ cmd' = "log"
                 /\ args'.project = p
                 /\ month_number(args'.date) = month_number(d)]_vars

\* a snapshot stored before the last `schedule set` of its project still
\* shows the schedule it was expanded from
C20_Witness ==
    /\ cmd = "set"
    /\ \E d \in LogDates :
           /\ schedule_get_log(Db, args.project, d).some
           /\ schedule_get(Db, args.project).some
           /\ schedule_get_log(Db, args.project, d).val
                  # from_weekly(schedule_get(Db, args.project).val, d)
           /\ schedule_get_log(Db, args.project, d).val # {}

(***************************************************************************)
(* Properties of the value parsers                                         *)
(***************************************************************************)
\* positions of the unit suffixes of a text
UnitPositions(v) == {i \in 1..Len(v) : v[i] \in {"h", "m"}}

\* first position of the run of digits that ends just before position i
\* (i itself when no digit stands there)
RunStart(v, i) ==
    CHOOSE j \in 1..i :
        /\ \A k \in j..(i - 1) : is_digit(v[k])
        /\ (j > 1 => ~is_digit(v[j - 1]))

RECURSIVE Decimal(_)
\* value of a sequence of digits read as a decimal number
Decimal(ds) ==
    IF ds = <<>> THEN 0
    ELSE Decimal(SubSeq(ds, 1, Len(ds) - 1)) * 10 + digit_value(ds[Len(ds)])

\* the number written directly before position i
NumberBefore(v, i) == Decimal(SubSeq(v, RunStart(v, i), i - 1))

RECURSIVE SumOver(_, _)
\* sum of f[i] over the positions i in S
SumOver(f, S) ==
    IF S = {} THEN 0
    ELSE LET i == CHOOSE x \in S : TRUE IN f[i] + SumOver(f, S \ {i})

\* the texts the parser is said to accept: not empty, only digits and units,
\* digits directly before every unit, no number after a last unit 'm'
WellFormedDuration(v) ==
    /\ v # <<>>
    /\ \A i \in 1..Len(v) : is_digit(v[i]) \/ v[i] \in {"h", "m"}
    /\ \A i \in UnitPositions(v) : i > 1 /\ is_digit(v[i - 1])
    /\ \A i \in UnitPositions(v) :
           (v[i] = "m" /\ \A k \in (i + 1)..Len(v) : is_digit(v[k])) => i = Len(v)

\* the minutes a well-formed text stands for
DurationMinutes(v) ==
    LET units == UnitPositions(v)
        worth == [i \in units |->
                     (IF v[i] = "h" THEN 60 ELSE 1) * NumberBefore(v, i)]
        trailing == IF is_digit(v[Len(v)])
                    THEN NumberBefore(v, Len(v) + 1) * (IF units = {} THEN 60 ELSE 1)
                    ELSE 0
    IN SumOver(worth, units) + trailing

\* C21: duration_value_parser accepts a bare number as hours and numbers
\* suffixed by h or m: the result in minutes is 60 times each number
\* followed by 'h', plus each number followed by 'm', plus a trailing
\* unsuffixed number counted as hours when no unit appeared before it and as
\* minutes when the last unit was 'h'.
C21_DurationMinutes ==
    (Done("duration") /\ WellFormedDuration(args.v)) =>
        result = Ok(DurationMinutes(args.v))

\* "8h30" is 510 minutes
C21_Witness ==
    /\ Done("duration")
    /\ args.v = <<"8", "h", "3", "0">>
    /\ result = Ok(510)

\* C22: duration_value_parser fails with an error and no partial result on
\* every malformed text: a character other than a digit, 'h' or 'm', a unit
\* with no digits directly before it, a trailing number after an 'm' unit,
\* and the empty text.
C22_MalformedDurationFails ==
    (Done("duration") /\ ~WellFormedDuration(args.v)) =>
        (~result.ok /\ DOMAIN result = {"ok", "err"})

\* "1hm" fails although a number and a unit were already read
C22_Witness ==
    /\ Done("duration")
    /\ args.v = <<"1", "h", "m">>
    /\ ~result.ok

\* a and b are the same text but for the case of their letters
SameIgnoringCase(a, b) ==
    /\ Len(a) = Len(b)
    /\ \A i \in 1..Len(a) :
           \/ a[i] = b[i]
           \/ \E k \in 1..26 : {a[i], b[i]} = {UpperCase[k], LowerCase[k]}

\* the text names weekday w (days from Monday) in full or by its first three letters
NamesWeekday(v, w) ==
    \/ SameIgnoringCase(v, WeekdayNames[w + 1])
    \/ SameIgnoringCase(v, SubSeq(WeekdayNames[w + 1], 1, 3))

\* C23: weekday_value_parser maps, case-insensitively, each full English
\* weekday name and each three-letter abbreviation to the matching weekday,
\* and returns an error for every other text, the empty text and
\* misspellings included.
C23_WeekdayNames ==
    Done("weekday") =>
        /\ \A w \in Weekdays : NamesWeekday(args.v, w) => result = Ok(w)
        /\ (~\E w \in Weekdays : NamesWeekday(args.v, w)) => ~result.ok

\* "tHU" is Thursday
C23_Witness ==
    /\ Done("weekday")
    /\ args.v = <<"t", "H", "U">>
    /\ result = Ok(3)

\* C24: the weekly schedule is one value per project with last-write-wins:
\* schedule::get(p) is None until the first schedule::set for p and from
\* then on the schedule of the most recent set for p; a set for p leaves the
\* schedules of all other projects and all stored monthly logs unchanged.
C24_LastWriteWins ==
    /\ \A p \in Projects : schedule_get(Db, p) = None
    /\ [][IF cmd' = "set"
          THEN /\ schedule_get(DbNext, args'.project)
                      = Some(WeekBasedSchedule_new(args'.weekdays, ~args'.rigid))
               /\ Cardinality({r \in schedule_settings' :
                                   r.project_id = args'.project}) = 1
               /\ \A q \in Projects \ {args'.project} :
                      schedule_get(DbNext, q) = schedule_get(Db, q)
               /\ schedule_logs' = schedule_logs
          ELSE \A q \in Projects : schedule_get(DbNext, q) = schedule_get(Db, q)]_vars

\* a project has just been given a schedule other than the one another
\* project keeps, with monthly logs stored
C24_Witness ==
    /\ cmd = "set"
    /\ schedule_get(Db, args.project)
           = Some(WeekBasedSchedule_new(args.weekdays, ~args.rigid))
    /\ \E q \in Projects \ {args.project} :
           /\ schedule_get(Db, q).some
           /\ schedule_get(Db, q) # schedule_get(Db, args.project)
    /\ \E r \in schedule_logs : r.project_id = args.project

(***************************************************************************)
(* Relative dates                                                          *)
(***************************************************************************)
\* C25: relative date specifications never resolve to a future date:
\* whenever to_date succeeds with today, yesterday, weekday, day-only,
\* day+month without year, or no field at all, the result is not after the
\* calendar date of now.
C25_RelativeNotFuture ==
    (Done("to_date") /\ result.ok /\ ~args.date.some /\ ~args.year.some) =>
        DaysBetween(result.val, now.date) >= 0

\* a day and month later in the year than today resolve to the year before
C25_Witness ==
    /\ Done("to_date")
    /\ args.day.some /\ args.month.some /\ ~args.year.some
    /\ args.month.val > now.date.month
    /\ result.ok
    /\ result.val.year = now.date.year - 1
    /\ DaysBetween(result.val, now.date) > 0

(***************************************************************************)
(* Properties of the prompts                                               *)
(***************************************************************************)
RECURSIVE Lines(_)
\* the lines of a terminal input, the last one with or without its newline
Lines(term) ==
    IF term = <<>> THEN <<>>
    ELSE IF \E i \in 1..Len(term) : term[i] = "\n"
    THEN LET n == CHOOSE i \in 1..Len(term) :
                      term[i] = "\n" /\ \A j \in 1..(i - 1) : term[j] # "\n"
         IN <<SubSeq(term, 1, n - 1)>> \o Lines(SubSeq(term, n + 1, Len(term)))
    ELSE <<term>>

\* the line is not empty once trimmed and parses as a T
Answers(T, line) == trim(line) # <<>> /\ from_str(T, trim(line)).ok

\* C29: the prompts end within MAX_ATTEMPTS = 3 reads: yn_prompt returns
\* true on 'y', 'Y' or newline and false on 'n' or 'N' at the first such
\* key, and an error after the third consecutive unrecognised key without
\* reading a fourth; prompt returns the first non-empty input that parses
\* and an error after three attempts, an empty line counting as an attempt.
C29_PromptsTerminate ==
    /\ Done("yn_prompt") =>
          LET keys == args.term
              known == {i \in 1..Len(keys) : i <= 3 /\ keys[i] \in {"y", "Y", "\n", "n", "N"}}
          IN /\ result.reads <= MAX_ATTEMPTS
             /\ IF known # {}
                THEN LET first == CHOOSE i \in known : \A j \in known : i <= j IN
                     /\ result.res = Ok(keys[first] \in {"y", "Y", "\n"})
                     /\ result.reads = first
                     /\ result.term = SubSeq(keys, first + 1, Len(keys))
                ELSE /\ ~result.res.ok
                     /\ Len(keys) >= 3 =>
                            /\ result.reads = 3
                            /\ result.term = SubSeq(keys, 4, Len(keys))
    /\ Done("prompt") =>
          LET lines == Lines(args.term)
              good == {i \in 1..Len(lines) : i <= 3 /\ Answers(args.T, lines[i])}
          IN /\ result.reads <= MAX_ATTEMPTS
             /\ IF good # {}
                THEN LET first == CHOOSE i \in good : \A j \in good : i <= j IN
                     /\ result.res = from_str(args.T, trim(lines[first]))
                     /\ result.reads = first
                ELSE /\ ~result.res.ok
                     /\ Len(lines) >= 3 => result.reads = 3

\* three unrecognised keys end yn_prompt with an error and leave the fourth
\* key, a 'y', unread
C29_Witness ==
    /\ Done("yn_prompt")
    /\ args.term = <<"x", "1", "x", "y">>
    /\ ~result.res.ok
    /\ result.reads = 3
    /\ result.term = <<"y">>

\* an empty line, a blank line and a number end prompt::<i32> with the
\* number at the third read
PromptThirdAttempt ==
    /\ Done("prompt")
    /\ args.T = "i32"
    /\ args.term = <<"\n", " ", "\n", "1", "\n">>
    /\ result.res = Ok(1)
    /\ result.reads = 3

(***************************************************************************)
(* Properties of the projects                                              *)
(***************************************************************************)
\* the stored default is absent or the id of a row of projects
DefaultValid(db) ==
    /\ Cardinality(db.default_project) <= 1
    /\ \A d \in db.default_project :
           d.id = 0 /\ \E p \in db.projects : p.id = d.project_id

\* C28: the default project always references an existing project: in every
\* state reachable through set_default, set_default_interactive and
\* get_default_or_create_interactive the stored default is absent or the id
\* of a row in projects; set_default with an id that does not exist returns
\* an error and leaves the stored default unchanged; and after
\* get_default_or_create_interactive succeeds a default exists and is the
\* project it returned.
C28_DefaultExists ==
    /\ DefaultValid(Db)
    /\ [][/\ DefaultValid(DbNext)
          /\ cmd' = "set_default" =>
                 LET id == prompt("i32", args'.term).res IN
                 (id.ok /\ ~\E p \in projects : p.id = id.val) =>
                     (~result'.ok /\ default_project' = default_project)
          /\ (cmd' = "get_default_or_create" /\ result'.ok) =>
                 /\ result'.val \in projects'
                 /\ default_project' = {[id |-> 0, project_id |-> result'.val.id]}
                 /\ get_default(DbNext) = Some(result'.val)]_vars

\* project 7 was asked for as the default and refused; the default is still
\* project 2, chosen earlier among two projects
C28_Witness ==
    /\ cmd = "set_default"
    /\ prompt("i32", args.term).res = Ok(7)
    /\ ~result.ok
    /\ Cardinality(projects) = 2
    /\ default_project = {[id |-> 0, project_id |-> 2]}

(***************************************************************************)
(* Properties of the tasks                                                 *)
(***************************************************************************)
\* the rows the lookup of get_or_create_interactive accepts for a name given
\* with or without an issue
MatchingTasks(rows, project, issue, name) ==
    {r \in rows : /\ r.project_id = project
                  /\ r.name = name.val
                  /\ (issue.some => r.issue = issue)}

\* C30: tasks::get_or_create_interactive is idempotent when a name is
\* supplied: calling it again with the same project, issue and name returns
\* the same TaskId and creates no further row, so at most one row is created
\* in total, and none when a matching task already exists.
C30_GetOrCreateIdempotent ==
    [][(cmd' = "get_or_create" /\ args'.name.some) =>
          LET matching == MatchingTasks(tasks, args'.project, args'.issue, args'.name)
              again == get_or_create_interactive(DbNext, args'.project, args'.issue,
                                                 args'.name, args'.term)
          IN /\ result'.ok
             /\ IF matching # {}
                THEN tasks' = tasks /\ result'.val \in {r.id : r \in matching}
                ELSE /\ Cardinality(tasks') = Cardinality(tasks) + 1
                     /\ tasks \subseteq tasks'
                     /\ \A r \in tasks' \ tasks : r.id = result'.val
             /\ result'.val \in
                    {r.id : r \in MatchingTasks(tasks', args'.project, args'.issue, args'.name)}
             /\ again.res = result'
             /\ again.db.tasks = tasks']_vars

\* the task named "a" of project 1 was asked for without an issue and found,
\* among two tasks of that name, as the one created first
C30_Witness ==
    /\ cmd = "get_or_create"
    /\ args.project = 1 /\ args.name = Some(<<"a">>) /\ ~args.issue.some
    /\ Cardinality(MatchingTasks(tasks, 1, None, Some(<<"a">>))) = 2
    /\ result = Ok(1)

(***************************************************************************)
(* Properties of the log entries                                           *)
(***************************************************************************)
\* the stored rows for a date and a task
EntriesAt(rows, date, task) == {r \in rows : r.date = date /\ r.task_id = task}

\* C26: log entries accumulate: there is at most one stored row per
\* (date, task); every add_log call adds its minutes to the row of its
\* (date, task), which starts from nothing, so the row holds the sum of the
\* minutes of all calls made for it; the rows of other (date, task) pairs
\* are unchanged by a call.
C26_EntriesAccumulate ==
    /\ log_entries = {}
    /\ [][/\ \A r \in log_entries' :
                 Cardinality(EntriesAt(log_entries', r.date, r.task_id)) = 1
          /\ IF cmd' = "add_log"
             THEN LET before == EntriesAt(log_entries, args'.date, args'.task)
                      after == EntriesAt(log_entries', args'.date, args'.task)
                      stored == IF before = {} THEN 0
                                ELSE (CHOOSE r \in before : TRUE).duration_minutes
                  IN /\ after = {[date |-> args'.date, task_id |-> args'.task,
                                  duration_minutes |-> stored + args'.minutes]}
                     /\ log_entries' \ after = log_entries \ before
             ELSE log_entries' = log_entries]_vars

\* 60 minutes are stored after a call with 30 minutes, next to the row of
\* another task on the same date
C26_Witness ==
    /\ cmd = "add_log"
    /\ EntriesAt(log_entries, args.date, args.task)
           = {[date |-> args.date, task_id |-> args.task, duration_minutes |-> 60]}
    /\ args.minutes = 30
    /\ \E r \in log_entries : r.date = args.date /\ r.task_id # args.task

\* the stored entries of the tasks of a project whose date lies in the
\* period, both ends included; all of them when there is no period
EntriesShown(project, period) ==
    {l \in log_entries :
        /\ \E t \in tasks : t.id = l.task_id /\ t.project_id = project
        /\ period.some => /\ DaysBetween(period.val.from, l.date) >= 0
                          /\ DaysBetween(l.date, period.val.to) >= 0}

\* total of the minutes of a set of stored entries
MinutesOf(entries) == SumOver([l \in entries |-> l.duration_minutes], entries)

\* total of the durations of a sequence of rows
TotalOf(rows) == SumOver([i \in 1..Len(rows) |-> rows[i].duration], 1..Len(rows))

\* C27: get_by_issue_expanded conserves time: it returns exactly one row
\* per task that has at least one log entry in the period (both ends
\* inclusive; all entries when the period is None), the duration of the row
\* is the sum of the entries of the task in the period, and the total over
\* all rows equals the total over the rows of get_by_day_expanded for the
\* same arguments.
C27_ByIssueConservesTime ==
    cmd = "show_by_issue" =>
        LET rows == result.val
            shown == EntriesShown(args.project, args.period)
        IN /\ result.ok
           /\ {rows[i].task_id : i \in 1..Len(rows)} = {l.task_id : l \in shown}
           /\ Len(rows) = Cardinality({l.task_id : l \in shown})
           /\ \A i \in 1..Len(rows) :
                  rows[i].duration
                      = MinutesOf({l \in shown : l.task_id = rows[i].task_id})
           /\ TotalOf(rows)
                  = TotalOf(get_by_day_expanded(Db, args.project, args.period))

\* two tasks of project 1 are shown for the period between the two dates,
\* one of them with the minutes of both dates in one row, while an entry of
\* project 2 is stored as well
C27_Witness ==
    /\ cmd = "show_by_issue"
    /\ args.project = 1
    /\ args.period = Some(Period(Date(2024, 12, 2), Date(2024, 12, 20)))
    /\ Len(result.val) = 2
    /\ \E i \in 1..2 : result.val[i].task_id = 1 /\ result.val[i].duration = 120
    /\ Len(get_by_day_expanded(Db, 1, args.period)) = 3
    /\ \E l \in log_entries : l.task_id = 3

====
